---------------------------- MODULE Spec2Model ----------------------------
(***************************************************************************)
(* A model of the hocon.rs text front end: the string unescaper            *)
(* (src/internals/str_unescape.rs), the nom grammar (src/parser.rs) and    *)
(* the loader configuration with its include handling                      *)
(* (src/loader_config.rs).                                                 *)
(*                                                                         *)
(* Text is a sequence of bytes (UTF-8), offsets are 0-based byte offsets   *)
(* as in the Rust code; Slice(s, a, b) is &s[a..b].  A parser is an        *)
(* operator from the remaining input to a record                           *)
(*   [ok, panic, rest |-> remaining input, val |-> parsed value].          *)
(***************************************************************************)
EXTENDS Integers, Sequences, FiniteSets, TLC

VARIABLES fam, arg, op, out, cfg, stack, nested, earlier

vars == <<fam, arg, op, out, cfg, stack, nested, earlier>>

---------------------------------------------------------------------------
(* Bytes and characters *)

Printable ==
  <<" ", "!", "\"", "#", "$", "%", "&", "'", "(", ")", "*", "+", ",", "-", ".", "/",
    "0", "1", "2", "3", "4", "5", "6", "7", "8", "9", ":", ";", "<", "=", ">", "?",
    "@", "A", "B", "C", "D", "E", "F", "G", "H", "I", "J", "K", "L", "M", "N", "O",
    "P", "Q", "R", "S", "T", "U", "V", "W", "X", "Y", "Z", "[", "\\", "]", "^", "_",
    "a", "b", "c", "d", "e", "f", "g", "h", "i", "j", "k", "l", "m", "n", "o",
    "p", "q", "r", "s", "t", "u", "v", "w", "x", "y", "z", "{", "|", "}", "~">>

\* The byte of each ASCII character the grammar names (Printable lists 0x20
\* to 0x7E without the backtick, 0x60).
Ascii ==
  [c \in {Printable[i] : i \in 1..Len(Printable)} \cup {"\n", "\t", "\r"} |->
     IF c = "\n" THEN 10
     ELSE IF c = "\t" THEN 9
     ELSE IF c = "\r" THEN 13
     ELSE LET i == CHOOSE j \in 1..Len(Printable) : Printable[j] = c
          IN IF i <= 64 THEN 31 + i ELSE 32 + i]

B(c) == Ascii[c]

Bytes(cs) == [i \in 1..Len(cs) |-> Ascii[cs[i]]]

\* &s[a..b] and &s[a..]
Slice(s, a, b) == SubSeq(s, a + 1, b)

SliceFrom(s, a) == SubSeq(s, a + 1, Len(s))

\* starts_with / nom's tag
StartsWith(s, t) == Len(t) <= Len(s) /\ SubSeq(s, 1, Len(t)) = t

\* The concatenation of a sequence of sequences (Iterator::flatten).
RECURSIVE Flatten(_)
Flatten(seqs) == IF seqs = <<>> THEN <<>> ELSE Head(seqs) \o Flatten(Tail(seqs))

\* let x = v; F(x): v is evaluated once and bound to the parameter of F.
Let(v, F(_)) == F(v)

\* str::is_char_boundary: offset 0, the length, or a byte that is no UTF-8
\* continuation byte (0x80..=0xBF).
is_char_boundary(s, i) ==
  \/ i = 0
  \/ i = Len(s)
  \/ i < Len(s) /\ ~(s[i + 1] >= 128 /\ s[i + 1] < 192)

\* char::len_utf8 of the character whose first byte is b.
len_utf8(b) ==
  IF b < 128 THEN 1 ELSE IF b < 224 THEN 2 ELSE IF b < 240 THEN 3 ELSE 4

\* The UTF-8 encoding of a code point (String's representation of a char).
Utf8(cp) ==
  IF cp < 128 THEN <<cp>>
  ELSE IF cp < 2048 THEN <<192 + (cp \div 64), 128 + (cp % 64)>>
  ELSE IF cp < 65536
    THEN <<224 + (cp \div 4096), 128 + ((cp \div 64) % 64), 128 + (cp % 64)>>
    ELSE <<240 + (cp \div 262144), 128 + ((cp \div 4096) % 64),
           128 + ((cp \div 64) % 64), 128 + (cp % 64)>>

---------------------------------------------------------------------------
(* src/internals/str_unescape.rs *)

\* The second byte of each two-byte pattern; the first is the backslash.
PATTERNS ==
  <<B("\""), B("\\"), B("/"), B("b"), B("f"), B("n"), B("r"), B("t"), B("u")>>

REPLACEMENTS == <<B("\""), B("\\"), B("/"), 8, 12, 10, 13, 9>>

HIGH_SURROGATES(cp) == 55296 <= cp /\ cp < 56320

LOW_SURROGATES(cp) == 56320 <= cp /\ cp < 57344

\* The pattern (1-based index into PATTERNS) matching at offset i, 0 if none.
PatternAt(input, i) ==
  IF i + 2 <= Len(input) /\ input[i + 1] = B("\\")
       /\ \E p \in 1..Len(PATTERNS) : PATTERNS[p] = input[i + 2]
  THEN CHOOSE p \in 1..Len(PATTERNS) : PATTERNS[p] = input[i + 2]
  ELSE 0

\* AhoCorasick::find_iter: the next non-overlapping match at or after offset
\* pos, as its start offset; -1 when there is none.
RECURSIVE find_iter(_, _)
find_iter(input, pos) ==
  IF pos + 2 > Len(input) THEN -1
  ELSE IF PatternAt(input, pos) # 0 THEN pos
  ELSE find_iter(input, pos + 1)

HexVal(b) ==
  IF b >= B("0") /\ b <= B("9") THEN b - B("0")
  ELSE IF b >= B("a") /\ b <= B("f") THEN b - B("a") + 10
  ELSE IF b >= B("A") /\ b <= B("F") THEN b - B("A") + 10
  ELSE -1

is_ascii_hexdigit(b) == HexVal(b) >= 0

RECURSIVE HexNum(_)
HexNum(ds) ==
  IF ds = <<>> THEN 0 ELSE 16 * HexNum(SubSeq(ds, 1, Len(ds) - 1)) + HexVal(ds[Len(ds)])

\* u16::from_str_radix(_, 16) on a four-byte slice: an optional leading '+',
\* then one or more hex digits.
from_str_radix(hex_digits) ==
  Let(IF hex_digits[1] = B("+") THEN Tail(hex_digits) ELSE hex_digits, LAMBDA ds :
    IF ds # <<>> /\ \A i \in 1..Len(ds) : is_ascii_hexdigit(ds[i])
    THEN [ok |-> TRUE, cp |-> HexNum(ds)]
    ELSE [ok |-> FALSE, cp |-> 0])

\* A decoder that does not merge a surrogate pair: each unit on its own.
from_utf16_unmerged(units) ==
  IF \E i \in 1..Len(units) : HIGH_SURROGATES(units[i]) \/ LOW_SURROGATES(units[i])
  THEN [ok |-> FALSE, str |-> <<>>]
  ELSE [ok |-> TRUE, str |-> Flatten([i \in 1..Len(units) |-> Utf8(units[i])])]

\* String::from_utf16 on one or two code units: [ok, str].
from_utf16(units) ==
  IF Len(units) = 1
  THEN IF HIGH_SURROGATES(units[1]) \/ LOW_SURROGATES(units[1])
       THEN [ok |-> FALSE, str |-> <<>>]
       ELSE [ok |-> TRUE, str |-> Utf8(units[1])]
  ELSE IF HIGH_SURROGATES(units[1])
  THEN IF LOW_SURROGATES(units[2])
       THEN [ok |-> TRUE,
             str |-> Utf8(65536 + (units[1] - 55296) * 1024 + (units[2] - 56320))]
       ELSE [ok |-> FALSE, str |-> <<>>]
  ELSE IF LOW_SURROGATES(units[1]) \/ HIGH_SURROGATES(units[2]) \/ LOW_SURROGATES(units[2])
  THEN [ok |-> FALSE, str |-> <<>>]
  ELSE [ok |-> TRUE, str |-> Utf8(units[1]) \o Utf8(units[2])]

\* A slice &s[a..b] panics unless a <= b <= len and both lie on character
\* boundaries.
SliceOk(s, a, b) ==
  a <= b /\ b <= Len(s) /\ is_char_boundary(s, a) /\ is_char_boundary(s, b)

\* The \u arm of the loop body: st already holds the text copied before the
\* match and last_start = mat_end.
unescape_u(input, mat_end, st) ==
  IF mat_end + 4 > Len(input) THEN st
  ELSE IF ~SliceOk(input, mat_end, mat_end + 4) THEN [st EXCEPT !.panic = TRUE]
  ELSE Let(from_str_radix(Slice(input, mat_end, mat_end + 4)), LAMBDA parsed :
    Let([st EXCEPT !.last_start = mat_end + 4], LAMBDA st2 :
      IF ~parsed.ok THEN st2
      ELSE IF HIGH_SURROGATES(parsed.cp)
        THEN [st2 EXCEPT !.surrogates_vec = <<parsed.cp, st.surrogates_vec[2]>>]
      ELSE Let(<<st.surrogates_vec[1], parsed.cp>>, LAMBDA sv :
        Let(from_utf16(IF LOW_SURROGATES(parsed.cp) THEN sv ELSE <<parsed.cp>>),
            LAMBDA dec :
          [st2 EXCEPT !.surrogates_vec = sv,
                      !.res = IF dec.ok THEN st.res \o dec.str ELSE st.res]))))

\* One iteration of the for loop of unescape, for the match at mat_start.
\* st = [res, last_start, surrogates_vec, panic].
unescape_step(input, mat_start, st) ==
  IF ~SliceOk(input, st.last_start, mat_start) THEN [st EXCEPT !.panic = TRUE]
  ELSE Let(PatternAt(input, mat_start), LAMBDA pat :
    Let(st.res \o Slice(input, st.last_start, mat_start), LAMBDA res1 :
      IF pat <= Len(REPLACEMENTS)
      THEN [st EXCEPT !.res = res1 \o <<REPLACEMENTS[pat]>>, !.last_start = mat_start + 2]
      ELSE unescape_u(input, mat_start + 2,
                      [st EXCEPT !.res = res1, !.last_start = mat_start + 2])))

RECURSIVE unescape_loop(_, _, _)
unescape_loop(input, pos, st) ==
  IF st.panic THEN st
  ELSE Let(find_iter(input, pos), LAMBDA m :
    IF m = -1
    THEN IF SliceOk(input, st.last_start, Len(input))
         THEN [st EXCEPT !.res = st.res \o SliceFrom(input, st.last_start)]
         ELSE [st EXCEPT !.panic = TRUE]
    ELSE unescape_loop(input, m + 2, unescape_step(input, m, st)))

\* unescape(input): [panic, res]; res is the returned string when it returns.
unescape(input) ==
  Let(unescape_loop(input, 0,
        [res |-> <<>>, last_start |-> 0, surrogates_vec |-> <<0, 0>>, panic |-> FALSE]),
      LAMBDA st : [panic |-> st.panic, res |-> IF st.panic THEN <<>> ELSE st.res])

---------------------------------------------------------------------------
(* src/parser.rs: whitespace and comments.  These parsers never produce a   *)
(* value; the ones that cannot fail return the remaining input directly.   *)

Fail(s) == [ok |-> FALSE, panic |-> FALSE, rest |-> s, val |-> <<>>]

Ok(s, v) == [ok |-> TRUE, panic |-> FALSE, rest |-> s, val |-> v]

\* The parser did not return: a panic unwinds through every caller.
Panic(s) == [ok |-> FALSE, panic |-> TRUE, rest |-> s, val |-> <<>>]

\* The error a parser returns when the inner parser r did not succeed.
Err(r, s) == IF r.panic THEN Panic(s) ELSE Fail(s)

\* nom's tag: the remaining input after t, when the input starts with t.
tag(t, s) == IF StartsWith(s, t) THEN Ok(SliceFrom(s, Len(t)), t) ELSE Fail(s)

\* The six alternatives of space: " ", "\t", U+FEFF, U+00A0, U+2007, U+202F.
SpaceTags ==
  {<<B(" ")>>, <<B("\t")>>, <<239, 187, 191>>, <<194, 160>>, <<226, 128, 135>>,
   <<226, 128, 175>>}

RECURSIVE space(_)
space(s) ==
  IF \E t \in SpaceTags : StartsWith(s, t)
  THEN space(SliceFrom(s, Len(CHOOSE t \in SpaceTags : StartsWith(s, t))))
  ELSE s

\* many0(newline)
RECURSIVE many0_newline(_)
many0_newline(s) ==
  IF s # <<>> /\ s[1] = B("\n") THEN many0_newline(Tail(s)) ELSE s

\* nom's multispace0: spaces, tabs, carriage returns and line feeds.
RECURSIVE multispace0(_)
multispace0(s) ==
  IF s # <<>> /\ s[1] \in {B(" "), B("\t"), B("\r"), B("\n")}
  THEN multispace0(Tail(s))
  ELSE s

\* take_until("\n"): the offset of the first newline, -1 when there is none.
RECURSIVE take_until_newline(_, _)
take_until_newline(s, i) ==
  IF i >= Len(s) THEN -1
  ELSE IF s[i + 1] = B("\n") THEN i
  ELSE take_until_newline(s, i + 1)

comment(s) ==
  Let(IF StartsWith(s, <<B("/"), B("/")>>) THEN 2
      ELSE IF StartsWith(s, <<B("#")>>) THEN 1 ELSE 0, LAMBDA t :
    Let(take_until_newline(s, t), LAMBDA n :
      IF t = 0 \/ n = -1 THEN Fail(s) ELSE Ok(SliceFrom(s, n), <<>>)))

space_then_comment(s) == comment(space(s))

\* many0(alt((newline, space_then_comment)))
RECURSIVE many0_newline_or_comment(_)
many0_newline_or_comment(s) ==
  IF s # <<>> /\ s[1] = B("\n") THEN many0_newline_or_comment(Tail(s))
  ELSE Let(space_then_comment(s), LAMBDA c :
    IF c.ok THEN many0_newline_or_comment(c.rest) ELSE s)

multiline_comment(s) ==
  Let(comment(space(many0_newline(s))), LAMBDA c :
    IF ~c.ok THEN Fail(s)
    ELSE Ok(multispace0(many0_newline_or_comment(c.rest)), <<>>))

\* opt(multiline_comment): the remaining input.
possible_comment(s) ==
  Let(multiline_comment(s), LAMBDA c : IF c.ok THEN c.rest ELSE s)

---------------------------------------------------------------------------
(* src/parser.rs: primitive values *)

\* digit1 / digit0: the number of ASCII digits of s from offset i on.
RECURSIVE digit0(_, _)
digit0(s, i) ==
  IF i < Len(s) /\ s[i + 1] >= B("0") /\ s[i + 1] <= B("9")
  THEN 1 + digit0(s, i + 1)
  ELSE 0

\* opt(pair(char('.'), digit1)) at offset b: the length matched.
number_fraction(s, b) ==
  IF b < Len(s) /\ s[b + 1] = B(".")
  THEN Let(digit0(s, b + 1), LAMBDA d : IF d > 0 THEN 1 + d ELSE 0)
  ELSE 0

\* opt(tuple((one_of("eE"), opt(one_of("+-")), digit1))) at offset c: the
\* length matched.
number_exponent(s, c) ==
  IF c < Len(s) /\ s[c + 1] \in {B("e"), B("E")}
  THEN Let(IF c + 1 < Len(s) /\ s[c + 2] \in {B("+"), B("-")} THEN 1 ELSE 0, LAMBDA sg :
    Let(digit0(s, c + 1 + sg), LAMBDA d : IF d > 0 THEN 1 + sg + d ELSE 0))
  ELSE 0

\* recognize_number: the length of the recognised token, 0 when it fails.
\* [-]digits[.digits][(e|E)[+|-]digits]
recognize_number(s) ==
  Let(IF s # <<>> /\ s[1] = B("-") THEN 1 ELSE 0, LAMBDA a :
    Let(digit0(s, a), LAMBDA d1 :
      IF d1 = 0 THEN 0
      ELSE Let(a + d1 + number_fraction(s, a + d1), LAMBDA c :
        c + number_exponent(s, c))))

I64MaxDigits ==
  Bytes(<<"9", "2", "2", "3", "3", "7", "2", "0", "3", "6", "8", "5", "4", "7", "7", "5",
          "8", "0", "7">>)

RECURSIVE StripZeros(_)
StripZeros(ds) ==
  IF Len(ds) > 1 /\ ds[1] = B("0") THEN StripZeros(Tail(ds)) ELSE ds

\* ds <= bound, for two digit strings of the same length.
RECURSIVE DigitsLeq(_, _)
DigitsLeq(ds, bound) ==
  IF ds = <<>> THEN TRUE
  ELSE IF ds[1] < bound[1] THEN TRUE
  ELSE IF ds[1] > bound[1] THEN FALSE
  ELSE DigitsLeq(Tail(ds), Tail(bound))

\* str::parse::<i64> of a recognised token: digits only after the optional
\* sign, and a value within -2^63 .. 2^63 - 1.
parse_i64(tok) ==
  Let(IF tok[1] = B("-") THEN Tail(tok) ELSE tok, LAMBDA ds :
    /\ ds # <<>>
    /\ \A i \in 1..Len(ds) : ds[i] >= B("0") /\ ds[i] <= B("9")
    /\ Let(StripZeros(ds), LAMBDA z :
         \/ Len(z) < 19
         \/ /\ Len(z) = 19
            /\ DigitsLeq(z, IF tok[1] = B("-") THEN [I64MaxDigits EXCEPT ![19] = B("8")]
                            ELSE I64MaxDigits)))

\* An integer parser that recognises the sign and the first digit run only.
integer_digits_only(s) ==
  Let((IF s # <<>> /\ s[1] = B("-") THEN 1 ELSE 0), LAMBDA a :
    Let(digit0(s, a), LAMBDA d :
      IF d > 0 /\ parse_i64(Slice(s, 0, a + d))
      THEN Ok(SliceFrom(s, a + d), [t |-> "Integer", s |-> Slice(s, 0, a + d)])
      ELSE Fail(s)))

integer(s) ==
  Let(recognize_number(s), LAMBDA n :
    IF n > 0 /\ parse_i64(Slice(s, 0, n))
    THEN Ok(SliceFrom(s, n), [t |-> "Integer", s |-> Slice(s, 0, n)])
    ELSE Fail(s))

\* str::parse::<f64> accepts every token recognize_number recognises.
float(s) ==
  Let(recognize_number(s), LAMBDA n :
    IF n > 0 THEN Ok(SliceFrom(s, n), [t |-> "Real", s |-> Slice(s, 0, n)])
    ELSE Fail(s))

boolean(s) ==
  IF StartsWith(s, Bytes(<<"t", "r", "u", "e">>))
  THEN Ok(SliceFrom(s, 4), [t |-> "Boolean", s |-> Bytes(<<"t", "r", "u", "e">>)])
  ELSE IF StartsWith(s, Bytes(<<"f", "a", "l", "s", "e">>))
  THEN Ok(SliceFrom(s, 5), [t |-> "Boolean", s |-> Bytes(<<"f", "a", "l", "s", "e">>)])
  ELSE Fail(s)

---------------------------------------------------------------------------
(* src/parser.rs: strings *)

\* take_while_m_n(0, max, is_ascii_hexdigit) from offset i: the length matched.
RECURSIVE take_while_m_n(_, _, _)
take_while_m_n(max, s, i) ==
  IF max > 0 /\ i < Len(s) /\ is_ascii_hexdigit(s[i + 1])
  THEN 1 + take_while_m_n(max - 1, s, i + 1)
  ELSE 0

\* escaped_char: the length of one element of a quoted string's content at
\* offset i, 0 when none of the three alternatives matches.
escaped_char(s, i) ==
  IF i >= Len(s) THEN 0
  ELSE IF s[i + 1] \notin {B("\\"), B("\""), B("\n")} THEN len_utf8(s[i + 1])
  ELSE IF s[i + 1] = B("\\") /\ i + 2 <= Len(s)
          /\ s[i + 2] \in {PATTERNS[p] : p \in 1..Len(PATTERNS)} THEN 2
  ELSE IF s[i + 1] = B("\\") /\ i + 2 <= Len(s) /\ s[i + 2] = B("u")
    THEN 2 + take_while_m_n(4, s, i + 2)
  ELSE 0

\* recognize(many0(escaped_char)) from offset i: the offset where it stops.
RECURSIVE many0_escaped_char(_, _)
many0_escaped_char(s, i) ==
  Let(escaped_char(s, i), LAMBDA n :
    IF n = 0 THEN i ELSE many0_escaped_char(s, i + n))

\* string: val is the unescaped content; a panic of unescape is a panic of
\* the parser.
string(s) ==
  IF s = <<>> \/ s[1] # B("\"") THEN Fail(s)
  ELSE Let(many0_escaped_char(s, 1), LAMBDA e :
    IF ~(e < Len(s) /\ s[e + 1] = B("\"")) THEN Fail(s)
    ELSE Let(unescape(Slice(s, 1, e)), LAMBDA u :
      IF u.panic THEN Panic(s) ELSE Ok(SliceFrom(s, e + 1), u.res)))

\* The offset just after the run of quotes that starts at offset i.
RECURSIVE quote_run_end(_, _)
quote_run_end(bytes, i) ==
  IF i < Len(bytes) /\ bytes[i + 1] = B("\"") THEN quote_run_end(bytes, i + 1) ELSE i

RECURSIVE multiline_scan(_, _)

\* A scan that ends the content at the first three quotes of the run.
multiline_scan_first_three(remaining, i) ==
  IF i >= Len(remaining) THEN Fail(remaining)
  ELSE IF remaining[i + 1] # B("\"") THEN multiline_scan(remaining, i + 1)
  ELSE Let(quote_run_end(remaining, i), LAMBDA j :
    IF j - i >= 3 THEN Ok(SliceFrom(remaining, i + 3), Slice(remaining, 0, i))
    ELSE multiline_scan(remaining, j))

\* The while loop of multiline_string, from offset i of the text after the
\* opening quotes (i is quote_start when a quote is there).
multiline_scan(remaining, i) ==
  IF i >= Len(remaining) THEN Fail(remaining)
  ELSE IF remaining[i + 1] # B("\"") THEN multiline_scan(remaining, i + 1)
  ELSE Let(quote_run_end(remaining, i), LAMBDA j :
    IF j - i >= 3
    THEN Let(i + (j - i) - 3, LAMBDA content_end :
           Ok(SliceFrom(remaining, content_end + 3), Slice(remaining, 0, content_end)))
    ELSE multiline_scan(remaining, j))

multiline_string(s) ==
  IF ~StartsWith(s, <<B("\""), B("\""), B("\"")>>) THEN Fail(s)
  ELSE Let(multiline_scan(SliceFrom(s, 3), 0), LAMBDA r : IF r.ok THEN r ELSE Fail(s))

is_special_char(c) ==
  c \in {B("$"), B("\""), B("{"), B("}"), B("["), B("]"), B(":"), B("="), B(","),
         B("+"), B("#"), 96, B("^"), B("?"), B("!"), B("@"), B("*"), B("&"),
         B("'"), B("\\"), B("\t"), B("\n")}

\* A loop that stops at the special characters only.
RECURSIVE unquoted_end_no_slash(_, _)
unquoted_end_no_slash(s, idx) ==
  IF idx >= Len(s) THEN idx
  ELSE IF is_special_char(s[idx + 1]) THEN idx
  ELSE unquoted_end_no_slash(s, idx + len_utf8(s[idx + 1]))

\* The loop of unquoted_string: the value of end when the loop stops, for the
\* character at offset idx.
RECURSIVE unquoted_end(_, _)
unquoted_end(s, idx) ==
  IF idx >= Len(s) THEN idx
  ELSE IF is_special_char(s[idx + 1]) THEN idx
  ELSE IF s[idx + 1] = B("/") /\ idx + 1 < Len(s) /\ s[idx + 2] = B("/") THEN idx
  ELSE unquoted_end(s, idx + len_utf8(s[idx + 1]))

unquoted_string(s) ==
  Let(unquoted_end(s, 0), LAMBDA end :
    IF end = 0 THEN Fail(s) ELSE Ok(SliceFrom(s, end), Slice(s, 0, end)))

---------------------------------------------------------------------------
(* The Path-Entry store (HoconInternal).  A Document is a sequence of       *)
(* entries <<path, value>>.                                                *)

String(bytes) == [t |-> "String", s |-> bytes]

UnquotedString(bytes) == [t |-> "UnquotedString", s |-> bytes]

PathSubstitution(target, optional) ==
  [t |-> "PathSubstitution", target |-> target, optional |-> optional]

PathSubstitutionInParent(target) == [t |-> "PathSubstitutionInParent", target |-> target]

ToConcatToArray(value, original_path, item_id) ==
  [t |-> "ToConcatToArray", value |-> value, original_path |-> original_path,
   item_id |-> item_id]

\* HoconValue::maybe_concat: adjacent value tokens fold into one value.
maybe_concat(values) == [t |-> "Concat", values |-> values]

empty == <<>>

from_value(v) == <<<<<<>>, v>>>>

from_object(h) == h

\* HoconInternal::add: the concatenation of two Documents.
add(d1, d2) == d1 \o d2

\* add_to_path: every path prefixed.
add_to_path(doc, prefix) == [i \in 1..Len(doc) |-> <<prefix \o doc[i][1], doc[i][2]>>]

\* from_array: the items' entries in order, each under its index.
RECURSIVE from_array_at(_, _)
from_array_at(items, i) ==
  IF i > Len(items) THEN <<>>
  ELSE add_to_path(items[i], <<[t |-> "Index", i |-> i - 1]>>) \o from_array_at(items, i + 1)

from_array(items) == from_array_at(items, 1)

\* from_include: the Document of an include directive, left in the entry
\* list as the directive itself; the include machine below expands it.
from_include(included, config) ==
  from_value([t |-> "Include", kind |-> included.kind, target |-> included.target])

\* add_include: the included Document followed by the rest of the document.
add_include(d, included, config) == add(from_include(included, config), d)

---------------------------------------------------------------------------
(* src/parser.rs: values *)

RECURSIVE single_value(_), hocon_value(_), path_substitution(_)
RECURSIVE optional_path_substitution(_), many0_single_value(_)

\* delimited(opener, hocon_value, char('}')) once the opener of n bytes has
\* matched.
substitution_body(s, n) ==
  Let(hocon_value(SliceFrom(s, n)), LAMBDA v :
    IF ~v.ok THEN Err(v, s)
    ELSE IF v.rest # <<>> /\ v.rest[1] = B("}") THEN Ok(Tail(v.rest), v.val)
    ELSE Fail(s))

path_substitution(s) ==
  IF StartsWith(s, <<B("$"), B("{"), B("?")>>) THEN substitution_body(s, 3)
  ELSE IF StartsWith(s, <<B("$"), B("{")>>) THEN substitution_body(s, 2)
  ELSE Fail(s)

optional_path_substitution(s) ==
  IF StartsWith(s, <<B("$"), B("{"), B("?")>>) THEN substitution_body(s, 3)
  ELSE Fail(s)

\* The last three alternatives of single_value.
single_value_tail(s) ==
  Let(optional_path_substitution(s), LAMBDA o :
    IF o.panic THEN Panic(s)
    ELSE IF o.ok THEN Ok(o.rest, PathSubstitution(o.val, TRUE))
    ELSE Let(path_substitution(s), LAMBDA p :
      IF p.panic THEN Panic(s)
      ELSE IF p.ok THEN Ok(p.rest, PathSubstitution(p.val, FALSE))
      ELSE Let(unquoted_string(s), LAMBDA u :
        IF u.ok THEN Ok(u.rest, UnquotedString(u.val)) ELSE Fail(s))))

single_value(s) ==
  Let(multiline_string(s), LAMBDA m :
    IF m.ok THEN Ok(m.rest, String(m.val))
    ELSE Let(string(s), LAMBDA q :
      IF q.panic THEN Panic(s)
      ELSE IF q.ok THEN Ok(q.rest, String(q.val))
      ELSE Let(integer(s), LAMBDA i :
        IF i.ok THEN i
        ELSE Let(float(s), LAMBDA f :
          IF f.ok THEN f
          ELSE Let(boolean(s), LAMBDA b :
            IF b.ok THEN b ELSE single_value_tail(s))))))

\* many0(single_value)
many0_single_value(s) ==
  Let(single_value(s), LAMBDA r :
    IF r.panic THEN Panic(s)
    ELSE IF ~r.ok THEN Ok(s, <<>>)
    ELSE Let(many0_single_value(r.rest), LAMBDA m :
      IF m.panic THEN Panic(s) ELSE Ok(m.rest, <<r.val>> \o m.val)))

hocon_value(s) ==
  Let(single_value(possible_comment(s)), LAMBDA first_value :
    IF ~first_value.ok THEN Err(first_value, s)
    ELSE Let(many0_single_value(first_value.rest), LAMBDA remaining_values :
      IF remaining_values.panic THEN Panic(s)
      ELSE IF remaining_values.val = <<>> THEN Ok(remaining_values.rest, first_value.val)
      ELSE Ok(remaining_values.rest,
              maybe_concat(<<first_value.val>> \o remaining_values.val))))

---------------------------------------------------------------------------
(* src/parser.rs: separators *)

\* many1(newline): the number of newlines at the head of s.
RECURSIVE many1_newline(_)
many1_newline(s) ==
  IF s # <<>> /\ s[1] = B("\n") THEN 1 + many1_newline(Tail(s)) ELSE 0

\* The tail of the first two alternatives of separators, after the comment
\* or the newlines: space, possible_comment, multispace0.
separators_rest(s) == Ok(multispace0(possible_comment(space(s))), <<>>)

\* The third alternative of separators: ws(char(',')) then possible_comment.
separators_comma(s) ==
  Let(multispace0(s), LAMBDA s2 :
    IF s2 # <<>> /\ s2[1] = B(",")
    THEN Ok(possible_comment(multispace0(Tail(s2))), <<>>)
    ELSE Fail(s))

separators(s) ==
  Let(space(s), LAMBDA s1 :
    Let(multiline_comment(s1), LAMBDA c :
      IF c.ok THEN separators_rest(c.rest)
      ELSE Let(many1_newline(s1), LAMBDA n :
        IF n > 0 THEN separators_rest(SliceFrom(s1, n)) ELSE separators_comma(s))))

closing(s, closing_char) ==
  Let(separators(s), LAMBDA sep :
    Let(multispace0(IF sep.ok THEN sep.rest ELSE s), LAMBDA s1 :
      IF s1 # <<>> /\ s1[1] = closing_char THEN Ok(Tail(s1), <<>>) ELSE Fail(s)))

colon_or_equals(s) ==
  Let(multispace0(s), LAMBDA s1 :
    IF s1 # <<>> /\ s1[1] \in {B(":"), B("=")} THEN Ok(multispace0(Tail(s1)), s1[1])
    ELSE Fail(s))

---------------------------------------------------------------------------
(* src/parser.rs: include *)

\* One alternative of include_parser's alt: the opener of n bytes (0 for the
\* bare string), the string, and the closing parenthesis when n > 0.
include_target(s1, n, kind) ==
  Let(string(SliceFrom(s1, n)), LAMBDA f :
    IF f.panic THEN Panic(s1)
    ELSE IF ~f.ok THEN Fail(s1)
    ELSE IF n = 0 THEN Ok(space(f.rest), [kind |-> kind, target |-> f.val])
    ELSE IF StartsWith(f.rest, <<B(")")>>)
      THEN Ok(space(Tail(f.rest)), [kind |-> kind, target |-> f.val])
    ELSE Fail(s1))

include_alt(s, s1) ==
  Let(IF StartsWith(s1, Bytes(<<"f", "i", "l", "e", "(">>))
      THEN include_target(s1, 5, "File") ELSE Fail(s1), LAMBDA fs :
    IF fs.panic THEN Panic(s)
    ELSE IF fs.ok THEN fs
    ELSE Let(IF StartsWith(s1, Bytes(<<"u", "r", "l", "(">>))
             THEN include_target(s1, 4, "Url") ELSE Fail(s1), LAMBDA us :
      IF us.panic THEN Panic(s)
      ELSE IF us.ok THEN us
      ELSE Let(include_target(s1, 0, "File"), LAMBDA bs :
        IF bs.ok THEN bs ELSE Err(bs, s))))

include_parser(s) ==
  Let(tag(Bytes(<<"i", "n", "c", "l", "u", "d", "e", " ">>), s), LAMBDA t :
    IF ~t.ok THEN Fail(s)
    ELSE include_alt(s, space(multispace0(many0_newline(multispace0(t.rest))))))

---------------------------------------------------------------------------
(* src/parser.rs: key-values, objects, arrays, the root.  The parsers that *)
(* take the configuration return val as a Document (a Hash) or, for array  *)
(* and arrays, as the sequence of the items' Documents.                    *)

\* One operation id for all the += occurrences of a parse.
new_v4_per_parse(config, remaining) == <<config.seed, 0>>

\* uuid::Uuid::new_v4(): a fresh id per call.  Within one parse the call is
\* identified by the input left at the operator; config.seed stands for the
\* random bits, which differ from one parse to another.
new_v4(config, remaining) == <<config.seed, Len(remaining)>>

\* transform(|k, v| (k, ToConcatToArray {value: v, original_path: k, item_id}))
tag_to_concat(doc, item_id) ==
  [i \in 1..Len(doc) |-> <<doc[i][1], ToConcatToArray(doc[i][2], doc[i][1], item_id)>>]

\* The parsers below call one another through Call, which dispatches on the
\* name of the function called; s is its last argument.
RECURSIVE Call(_, _, _)

\* An attempt of key_value that returned from the function with result r.
Matched(r) == [matched |-> TRUE, r |-> r]

\* An attempt of key_value that fell through to the next one.
NoMatch == [matched |-> FALSE, r |-> <<>>]

\* key += value, afterPlus being the input after ws(tag("+=")).
key_plus_equals(config, s, afterPlus, key) ==
  Let(Call("wrapper", config, afterPlus), LAMBDA w :
    IF ~w.ok THEN Err(w, s)
    ELSE Ok(w.rest, add_to_path(tag_to_concat(from_object(w.val.doc),
                                              new_v4(config, afterPlus)), <<key>>)))

\* key : value or key = value, afterSep being the input after colon_or_equals.
key_colon_or_equals(config, s, afterSep, key) ==
  Let(Call("wrapper", config, afterSep), LAMBDA w :
    IF ~w.ok THEN Err(w, s)
    ELSE Ok(w.rest, add_to_path(from_object(w.val.doc), <<key>>)))

\* key { ... }: the direct hash after a key.
key_direct_hash(config, s, remaining, key) ==
  Let(Call("hashes", config, remaining), LAMBDA h :
    IF h.panic THEN Matched(Panic(s))
    ELSE IF h.ok THEN Matched(Ok(h.rest, add_to_path(from_object(h.val), <<key>>)))
    ELSE NoMatch)

\* The three attempts of key_value after a key (quoted or unquoted) was
\* read, remaining being the input after the key: +=, then : or =, then a
\* direct hash.
key_value_after(config, s, remaining, key) ==
  Let(multispace0(remaining), LAMBDA r1 :
    IF StartsWith(r1, <<B("+"), B("=")>>)
    THEN Matched(key_plus_equals(config, s, multispace0(SliceFrom(r1, 2)), key))
    ELSE Let(colon_or_equals(remaining), LAMBDA ce :
      IF ce.ok THEN Matched(key_colon_or_equals(config, s, ce.rest, key))
      ELSE key_direct_hash(config, s, remaining, key)))

\* The unquoted-key attempt of key_value.
key_value_unquoted(config, s, s0) ==
  Let(unquoted_string(multispace0(s0)), LAMBDA uk :
    IF ~uk.ok THEN Fail(s)
    ELSE Let(key_value_after(config, s, multispace0(uk.rest), UnquotedString(uk.val)),
             LAMBDA ua : IF ua.matched THEN ua.r ELSE Fail(s)))

\* The quoted-key attempt of key_value, then the unquoted one.
key_value_quoted(config, s, s0) ==
  Let(string(multispace0(s0)), LAMBDA qk :
    IF qk.panic THEN Panic(s)
    ELSE Let(IF qk.ok
             THEN key_value_after(config, s, multispace0(qk.rest), String(qk.val))
             ELSE NoMatch, LAMBDA qa :
      IF qa.matched THEN qa.r ELSE key_value_unquoted(config, s, s0)))

key_value(config, s) ==
  Let(multispace0(possible_comment(multispace0(s))), LAMBDA s0 :
    Let(include_parser(space(s0)), LAMBDA inc :
      IF inc.panic THEN Panic(s)
      ELSE IF inc.ok THEN Ok(space(inc.rest), from_include(inc.val, config))
      ELSE key_value_quoted(config, s, s0)))

\* The loop of separated_list0(separators, f) after an element, f being the
\* name of the element parser.  The list ends before a separator that is not
\* followed by an element; a separator that consumes nothing is an error.
separated_more(f, config, s, more_name) ==
  Let(separators(s), LAMBDA sep :
    IF ~sep.ok THEN Ok(s, <<>>)
    ELSE IF Len(sep.rest) = Len(s) THEN Fail(s)
    ELSE Let(Call(f, config, sep.rest), LAMBDA e :
      IF e.panic THEN Panic(s)
      ELSE IF ~e.ok THEN Ok(s, <<>>)
      ELSE Let(Call(more_name, config, e.rest), LAMBDA more :
        IF ~more.ok THEN more
        ELSE Ok(more.rest, <<e.val>> \o more.val))))

\* separated_list0(separators, f): val is the sequence of the elements.
separated_list0(f, config, s, more_name) ==
  Let(Call(f, config, s), LAMBDA e :
    IF e.panic THEN Panic(s)
    ELSE IF ~e.ok THEN Ok(s, <<>>)
    ELSE Let(Call(more_name, config, e.rest), LAMBDA more :
      IF ~more.ok THEN more
      ELSE Ok(more.rest, <<e.val>> \o more.val)))

separated_hashlist_more(config, s) ==
  separated_more("key_value", config, s, "separated_hashlist_more")

\* separated_hashlist: val is the sequence of the key-values' Hashes.
separated_hashlist(config, s) ==
  separated_list0("key_value", config, s, "separated_hashlist_more")

hash(config, s) ==
  Let(space(s), LAMBDA s1 :
    IF s1 = <<>> \/ s1[1] # B("{") THEN Fail(s)
    ELSE Let(Call("separated_hashlist", config, Tail(s1)), LAMBDA hashlist :
      IF ~hashlist.ok THEN Err(hashlist, s)
      ELSE Let(closing(hashlist.rest, B("}")), LAMBDA cl :
        IF ~cl.ok THEN Fail(s)
        ELSE Ok(space(cl.rest), Flatten(hashlist.val)))))

\* many0(f): val is the sequence of the elements' values.
many0(f, config, s, self_name) ==
  Let(Call(f, config, s), LAMBDA h :
    IF h.panic THEN Panic(s)
    ELSE IF ~h.ok THEN Ok(s, <<>>)
    ELSE Let(Call(self_name, config, h.rest), LAMBDA m :
      IF m.panic THEN Panic(s)
      ELSE Ok(m.rest, <<h.val>> \o m.val)))

many0_hash(config, s) == many0("hash", config, s, "many0_hash")

\* opt(path_substitution): [panic, some, rest, val].
opt_path_substitution(s) ==
  Let(path_substitution(s), LAMBDA ps :
    [panic |-> ps.panic, some |-> ps.ok, rest |-> IF ps.ok THEN ps.rest ELSE s,
     val |-> ps.val])

\* A chain that puts the later layers before the first.
first_and_remaining_reversed(first, many, config, s) ==
  Let(Call(first, config, s), LAMBDA f :
    IF ~f.ok THEN Err(f, s)
    ELSE Let(Call(many, config, f.rest), LAMBDA m :
      IF m.panic THEN Panic(s) ELSE Ok(m.rest, Flatten(m.val) \o f.val)))

\* first(config) then many0 of it: val is <<the first value, the sequence of
\* the remaining values>>.
first_and_remaining(first, many, config, s) ==
  Let(Call(first, config, s), LAMBDA f :
    IF ~f.ok THEN Err(f, s)
    ELSE Let(Call(many, config, f.rest), LAMBDA m :
      IF m.panic THEN Panic(s) ELSE Ok(m.rest, f.val \o Flatten(m.val))))

hashes(config, s) ==
  Let(opt_path_substitution(s), LAMBDA maybe_substitution :
    IF maybe_substitution.panic THEN Panic(s)
    ELSE Let(first_and_remaining("hash", "many0_hash", config, maybe_substitution.rest),
             LAMBDA h :
      IF ~h.ok THEN Err(h, s)
      ELSE IF ~maybe_substitution.some THEN Ok(h.rest, h.val)
      ELSE Ok(h.rest,
              <<<<<<>>, PathSubstitution(maybe_substitution.val, FALSE)>>>> \o h.val)))

root_hash(config, s) ==
  Let(space(s), LAMBDA s1 :
    IF s1 # <<>> /\ s1[1] = B("{") THEN Fail(s)
    ELSE Let(Call("separated_hashlist", config, s1), LAMBDA hashlist :
      IF ~hashlist.ok THEN Err(hashlist, s)
      ELSE Ok(space(hashlist.rest), Flatten(hashlist.val))))

separated_items_more(config, s) ==
  separated_more("wrapper_doc", config, s, "separated_items_more")

\* separated_list0(separators, wrapper(config)): val is the sequence of the
\* items' Documents.
separated_items(config, s) ==
  separated_list0("wrapper_doc", config, s, "separated_items_more")

array(config, s) ==
  Let(space(s), LAMBDA s1 :
    IF s1 = <<>> \/ s1[1] # B("[") THEN Fail(s)
    ELSE Let(Call("separated_items", config, multispace0(space(Tail(s1)))), LAMBDA items :
      IF ~items.ok THEN Err(items, s)
      ELSE Let(closing(items.rest, B("]")), LAMBDA cl :
        IF ~cl.ok THEN Fail(s) ELSE Ok(cl.rest, items.val))))

many0_array(config, s) == many0("array", config, s, "many0_array")

arrays(config, s) ==
  Let(opt_path_substitution(s), LAMBDA maybe_substitution :
    IF maybe_substitution.panic THEN Panic(s)
    ELSE Let(first_and_remaining("array", "many0_array", config, maybe_substitution.rest),
             LAMBDA a :
      IF ~a.ok THEN Err(a, s)
      ELSE IF ~maybe_substitution.some THEN Ok(a.rest, a.val)
      ELSE Ok(a.rest,
              <<from_value(PathSubstitutionInParent(maybe_substitution.val))>> \o a.val)))

\* The last two alternatives of wrapper: an include, then a value.
wrapper_tail(config, s, s1) ==
  Let(include_parser(s1), LAMBDA inc :
    IF inc.panic THEN Panic(s)
    ELSE IF inc.ok
      THEN Ok(inc.rest, [shape |-> "include", doc |-> from_include(inc.val, config)])
    ELSE Let(hocon_value(s1), LAMBDA v :
      IF ~v.ok THEN Err(v, s)
      ELSE Ok(v.rest, [shape |-> "value", doc |-> from_value(v.val)])))

\* wrapper: val is [shape, doc], shape naming the alternative that matched.
wrapper(config, s) ==
  Let(possible_comment(s), LAMBDA s1 :
    Let(Call("hashes", config, s1), LAMBDA h :
      IF h.panic THEN Panic(s)
      ELSE IF h.ok THEN Ok(h.rest, [shape |-> "object", doc |-> from_object(h.val)])
      ELSE Let(Call("arrays", config, s1), LAMBDA a :
        IF a.panic THEN Panic(s)
        ELSE IF a.ok THEN Ok(a.rest, [shape |-> "array", doc |-> from_array(a.val)])
        ELSE wrapper_tail(config, s, s1))))

\* wrapper as the element parser of an array: val is the item's Document.
wrapper_doc(config, s) ==
  Let(wrapper(config, s), LAMBDA w : IF w.ok THEN Ok(w.rest, w.val.doc) ELSE w)

\* root_include: ws(include_parser), then the rest of the document.
root_include(config, s) ==
  Let(include_parser(multispace0(s)), LAMBDA inc :
    IF ~inc.ok THEN Err(inc, s)
    ELSE Let(Call("root", config, multispace0(inc.rest)), LAMBDA doc :
      IF ~doc.ok THEN Err(doc, s)
      ELSE Ok(doc.rest, [shape |-> doc.val.shape,
                         doc |-> add_include(doc.val.doc, inc.val, config)])))

\* An alternative of root that matched: possible_comment, then the Document.
root_done(r, shape, doc) == Ok(possible_comment(r.rest), [shape |-> shape, doc |-> doc])

\* The last two alternatives of root: hash, then array.
root_tail(config, s, input) ==
  Let(Call("hash", config, input), LAMBDA h :
    IF h.panic THEN Panic(s)
    ELSE IF h.ok THEN root_done(h, "object", from_object(h.val))
    ELSE Let(Call("array", config, input), LAMBDA a :
      IF a.panic THEN Panic(s)
      ELSE IF a.ok THEN root_done(a, "array", from_array(a.val))
      ELSE Fail(s)))

\* root: val is [shape, doc]; shape is "object" for from_object and "array"
\* for from_array.
root(config, s) ==
  Let(possible_comment(s), LAMBDA input :
    Let(Call("root_include", config, input), LAMBDA ri :
      IF ri.panic THEN Panic(s)
      ELSE IF ri.ok THEN root_done(ri, ri.val.shape, ri.val.doc)
      ELSE Let(Call("root_hash", config, input), LAMBDA rh :
        IF rh.panic THEN Panic(s)
        ELSE IF rh.ok THEN root_done(rh, "object", from_object(rh.val))
        ELSE root_tail(config, s, input))))

---------------------------------------------------------------------------
(* src/loader_config.rs: ConfFileMeta and HoconLoaderConfig *)

\* The segments of a path between slashes.
RECURSIVE Segments(_, _)
Segments(path, cur) ==
  IF path = <<>> THEN <<cur>>
  ELSE IF path[1] = B("/") THEN <<cur>> \o Segments(Tail(path), <<>>)
  ELSE Segments(Tail(path), cur \o <<path[1]>>)

\* std::path::Components: the non-empty segments, "." segments dropped except
\* a leading one.
ComponentsOf(segs) ==
  SelectSeq([i \in 1..Len(segs) |-> [seg |-> segs[i], first |-> i = 1]],
            LAMBDA c : c.seg # <<>> /\ (c.seg # <<B(".")>> \/ c.first))

Components(path) == ComponentsOf(Segments(path, <<>>))

\* The last component, when it is a normal one.
last_normal(cs) ==
  IF cs = <<>> THEN [some |-> FALSE, name |-> <<>>]
  ELSE IF cs[Len(cs)].seg \in {<<B("."), B(".")>>, <<B(".")>>}
    THEN [some |-> FALSE, name |-> <<>>]
  ELSE [some |-> TRUE, name |-> cs[Len(cs)].seg]

\* Path::file_name
file_name(path) == last_normal(Components(path))

\* The offset of the last '.' of a file name, -1 when there is none.
RECURSIVE rfind_dot(_, _)
rfind_dot(name, i) ==
  IF i = 0 THEN -1
  ELSE IF name[i] = B(".") THEN i - 1
  ELSE rfind_dot(name, i - 1)

\* Path::extension of a file name: the part after the last '.', none when
\* there is no '.' or only a leading one.
extension(name) ==
  Let(rfind_dot(name, Len(name)), LAMBDA d :
    IF d <= 0 THEN [some |-> FALSE, ext |-> <<>>]
    ELSE [some |-> TRUE, ext |-> SliceFrom(name, d + 1)])

RECURSIVE JoinSegs(_)
JoinSegs(cs) ==
  IF cs = <<>> THEN <<>>
  ELSE IF Len(cs) = 1 THEN cs[1].seg
  ELSE cs[1].seg \o <<B("/")>> \o JoinSegs(Tail(cs))

\* PathBuf::pop on a path with a file name: the path without its last
\* component.
pop(path) ==
  Let(Components(path), LAMBDA cs :
    (IF path[1] = B("/") THEN <<B("/")>> ELSE <<>>)
      \o JoinSegs(SubSeq(cs, 1, Len(cs) - 1)))

\* The match on the extension in from_path.
file_type_of(ext) ==
  IF ext.some /\ ext.ext = Bytes(<<"p", "r", "o", "p", "e", "r", "t", "i", "e", "s">>)
    THEN "Properties"
  ELSE IF ext.some /\ ext.ext = Bytes(<<"j", "s", "o", "n">>) THEN "Json"
  ELSE IF ext.some /\ ext.ext = Bytes(<<"c", "o", "n", "f">>) THEN "Hocon"
  ELSE "All"

\* ConfFileMeta::from_path: panic is the expect on file_name.
from_path(path) ==
  Let(file_name(path), LAMBDA file :
    IF ~file.some
    THEN [panic |-> TRUE, path |-> <<>>, full_path |-> path, file_type |-> "All"]
    ELSE [panic |-> FALSE, path |-> pop(path), full_path |-> path,
          file_type |-> file_type_of(extension(file.name))])

\* HoconLoaderConfig::default; seed is the model's stand-in for the random
\* source of new_v4.
default ==
  [include_depth |-> 0, file_meta |-> [some |-> FALSE, meta |-> <<>>], system |-> TRUE,
   external_url |-> TRUE, strict |-> FALSE, max_include_depth |-> 10, seed |-> 0]

\* included_from: include_depth is a u8.
included_from(self) == [self EXCEPT !.include_depth = (self.include_depth + 1) % 256]

\* PathBuf::join: an absolute path replaces the base.
join(base, path) ==
  IF path # <<>> /\ path[1] = B("/") THEN path
  ELSE IF base = <<>> \/ base[Len(base)] = B("/") THEN base \o path
  ELSE base \o <<B("/")>> \o path

\* with_file: [panic, config].
with_file(self, path) ==
  Let(from_path(IF self.file_meta.some THEN join(self.file_meta.meta.path, path)
                ELSE path), LAMBDA meta :
    IF meta.panic THEN [panic |-> TRUE, config |-> self]
    ELSE [panic |-> FALSE,
          config |-> [self EXCEPT !.file_meta = [some |-> TRUE, meta |-> meta]]])

remaining_only_whitespace(remaining) ==
  \A i \in 1..Len(remaining) : remaining[i] \in {B("\n"), B("\r"), 0}

\* format!("{}\n\0", text.replace('\r', "\n"))
terminated(t) ==
  [i \in 1..Len(t) |-> IF t[i] = B("\r") THEN B("\n") ELSE t[i]] \o <<B("\n"), 0>>

\* The lines of a properties text.
RECURSIVE Lines(_, _)
Lines(t, cur) ==
  IF t = <<>> THEN (IF cur = <<>> THEN <<>> ELSE <<cur>>)
  ELSE IF t[1] = B("\n") THEN (IF cur = <<>> THEN <<>> ELSE <<cur>>) \o Lines(Tail(t), <<>>)
  ELSE Lines(Tail(t), cur \o <<t[1]>>)

RECURSIVE find_eq(_, _)
find_eq(line, i) ==
  IF i >= Len(line) THEN -1 ELSE IF line[i + 1] = B("=") THEN i ELSE find_eq(line, i + 1)

\* One decoded pair as one single-level entry.
property_entry(line) ==
  Let(find_eq(line, 0), LAMBDA e :
    IF e = -1 THEN <<<<UnquotedString(line)>>, String(<<>>)>>
    ELSE <<<<UnquotedString(Slice(line, 0, e))>>, String(SliceFrom(line, e + 1))>>)

\* The Properties Decoder (java_properties::read) and from_properties: one
\* line "key=value" per pair, each pair one single-level entry.
from_properties(properties) ==
  Let(Lines(properties, <<>>), LAMBDA ls :
    [i \in 1..Len(ls) |-> property_entry(ls[i])])

\* A Result<HoconInternal>: [ok, panic, err, doc], err being the Error
\* variant when ~ok and the call returned.
Done(doc) == [ok |-> TRUE, panic |-> FALSE, err |-> "", doc |-> doc]

Error(variant) == [ok |-> FALSE, panic |-> FALSE, err |-> variant, doc |-> <<>>]

Aborted == [ok |-> FALSE, panic |-> TRUE, err |-> "", doc |-> <<>>]

\* The JSON and the native branch of parse_str_to_internal: root on the
\* terminated text, then the completeness check.
parse_branch(self, t) ==
  Let(Call("root", self, terminated(t)), LAMBDA r :
    IF r.panic THEN Aborted
    ELSE IF ~r.ok THEN Error("Parse")
    ELSE IF remaining_only_whitespace(r.rest) THEN Done(r.val.doc)
    ELSE IF self.strict THEN Error("Deserialization")
    ELSE Done(r.val.doc))

\* The native branch, after the properties and JSON branches left internal.
parse_hocon_branch(self, s, internal) ==
  IF ~s.hocon.some THEN Done(internal)
  ELSE Let(parse_branch(self, s.hocon.text), LAMBDA h :
    IF ~h.ok THEN h ELSE Done(add(internal, h.doc)))

\* The JSON branch, after the properties branch left internal.
parse_json_branch(self, s, internal) ==
  IF ~s.json.some THEN parse_hocon_branch(self, s, internal)
  ELSE Let(parse_branch(self, s.json.text), LAMBDA j :
    IF ~j.ok THEN j ELSE parse_hocon_branch(self, s, add(internal, j.doc)))

\* A merge that takes the native text before the JSON text.
parse_str_to_internal_native_first(self, s) ==
  parse_json_branch(self, [s EXCEPT !.json = s.hocon, !.hocon = s.json],
    IF s.properties.some THEN add(empty, from_properties(s.properties.text)) ELSE empty)

\* parse_str_to_internal(s), s a FileRead [properties, json, hocon], each
\* [some, text].
parse_str_to_internal(self, s) ==
  parse_json_branch(self, s,
    IF s.properties.some THEN add(empty, from_properties(s.properties.text)) ELSE empty)

None == [some |-> FALSE, text |-> <<>>]

Some(t) == [some |-> TRUE, text |-> t]

\* FileRead::default
FileRead == [properties |-> None, json |-> None, hocon |-> None]

\* FileRead::from_file_type, for the three file types it implements.
from_file_type(ft, t) ==
  IF ft = "Properties" THEN [FileRead EXCEPT !.properties = Some(t)]
  ELSE IF ft = "Json" THEN [FileRead EXCEPT !.json = Some(t)]
  ELSE [FileRead EXCEPT !.hocon = Some(t)]

---------------------------------------------------------------------------
(* The inputs.  Each family of inputs is the set of concatenations of at    *)
(* most a bounded number of pieces.                                        *)

MaxEscPieces == 3

MaxQuoted == 7

MaxDocPieces == 3

MaxPathPieces == 3

\* All concatenations of at most n pieces of P.
RECURSIVE Concats(_, _)
Concats(P, n) ==
  IF n = 0 THEN {<<>>}
  ELSE LET prev == Concats(P, n - 1) IN prev \cup {p \o t : p \in P, t \in prev}

\* Pieces of quoted-string contents: plain text (ASCII, two-byte), simple
\* escapes, \u escapes (a BMP character, a high and a low surrogate),
\* truncated and bare \u, a backslash before a character that is no escape.
EscPieces ==
  {Bytes(<<"a">>), <<195, 169>>, Bytes(<<"+">>),
   Bytes(<<"\\", "n">>), Bytes(<<"\\", "\\">>), Bytes(<<"\\", "\"">>),
   Bytes(<<"\\", "u", "0", "0", "4", "1">>),
   Bytes(<<"\\", "u", "d", "8", "3", "d">>),
   Bytes(<<"\\", "u", "D", "E", "0", "0">>),
   Bytes(<<"\\", "u">>), Bytes(<<"\\", "u", "a", "b">>), Bytes(<<"\\", "x">>)}

EscTexts == Concats(EscPieces, MaxEscPieces)

\* Texts that open with three quotes.
QuotedTexts ==
  {<<B("\""), B("\""), B("\"")>> \o t :
     t \in Concats({<<B("\"")>>, Bytes(<<"a">>), Bytes(<<"b">>)}, MaxQuoted)}

DocPieces ==
  {Bytes(<<"a", "=">>), Bytes(<<"1">>), Bytes(<<"\n">>), Bytes(<<" ">>), Bytes(<<"\t">>),
   Bytes(<<"}">>), Bytes(<<"[", "1", ",", "2", "]">>),
   Bytes(<<"{", "\"", "a", "\"", ":", "1", "}">>),
   Bytes(<<"$", "{", "?", "b", "}">>), Bytes(<<"$", "{", "b", "}">>),
   Bytes(<<"#", "c">>), Bytes(<<",">>)}

DocTexts == Concats(DocPieces, MaxDocPieces)

MaxAppendPieces == 3

\* Lines that append with += (quoted key, unquoted key, a value of one and
\* of two entries) and lines that set with =, : and a direct object.
AppendPieces ==
  {Bytes(<<"a", "+", "=", "1", "\n">>), Bytes(<<"\"", "a", "\"", "+", "=", "1", "\n">>),
   Bytes(<<"a", "+", "=", "{", "b", ":", "1", ",", "c", ":", "2", "}", "\n">>),
   Bytes(<<"b", "+", "=", "1", "\n">>),
   Bytes(<<"a", "=", "1", "\n">>), Bytes(<<"a", ":", "1", "\n">>),
   Bytes(<<"a", "{", "b", ":", "1", "}", "\n">>)}

AppendTexts == Concats(AppendPieces, MaxAppendPieces)

MaxNumberPieces == 4

\* Pieces of number texts: sign, digits, fraction, exponents (complete and
\* cut short), and eighteen digits that one more digit takes to either side
\* of the 64-bit signed range.
NumberPieces ==
  {Bytes(<<"-">>), Bytes(<<"1">>), Bytes(<<"0">>), Bytes(<<"7">>), Bytes(<<"8">>),
   Bytes(<<".", "5">>), Bytes(<<".">>), Bytes(<<"e", "2">>), Bytes(<<"E", "+", "3">>),
   Bytes(<<"e">>),
   Bytes(<<"9", "2", "2", "3", "3", "7", "2", "0", "3", "6", "8", "5", "4", "7", "7", "5",
           "8", "0">>)}

NumberTexts == Concats(NumberPieces, MaxNumberPieces)

MaxUnquotedPieces == 5

\* Pieces of unquoted texts: a letter, a space, a two-byte character, a
\* slash, two structural characters.
UnquotedPieces ==
  {Bytes(<<"a">>), Bytes(<<" ">>), <<195, 169>>, Bytes(<<"/">>), Bytes(<<":">>),
   Bytes(<<"\n">>)}

UnquotedTexts == Concats(UnquotedPieces, MaxUnquotedPieces)

MaxLayers == 3

\* The leading substitution of a chain.
ChainSubstitution == Bytes(<<"$", "{", "s", "}">>)

\* Literal object layers and literal array layers, one of each with a space
\* before it.
ObjectLayers ==
  {Bytes(<<"{", "a", ":", "1", "}">>), Bytes(<<" ", "{", "b", ":", "2", ",", "a", ":", "3", "}">>),
   Bytes(<<"{", "}">>)}

ArrayLayers ==
  {Bytes(<<"[", "1", "]">>), Bytes(<<" ", "[", "2", ",", "3", "]">>), Bytes(<<"[", "]">>)}

\* Chains: an optional leading substitution, then up to MaxLayers layers.
ChainsOf(layers) ==
  {p \o t : p \in {<<>>, ChainSubstitution}, t \in Concats(layers, MaxLayers)}

PathPieces ==
  {Bytes(<<"a">>), Bytes(<<".">>), Bytes(<<"/">>), Bytes(<<".", "c", "o", "n", "f">>)}

PathTexts == Concats(PathPieces, MaxPathPieces)

\* The dispatch of Call: the parser or the loader function of that name.
Call(name, config, s) ==
  CASE name = "key_value" -> key_value(config, s)
    [] name = "separated_hashlist_more" -> separated_hashlist_more(config, s)
    [] name = "separated_hashlist" -> separated_hashlist(config, s)
    [] name = "hash" -> hash(config, s)
    [] name = "many0_hash" -> many0_hash(config, s)
    [] name = "hashes" -> hashes(config, s)
    [] name = "root_hash" -> root_hash(config, s)
    [] name = "separated_items_more" -> separated_items_more(config, s)
    [] name = "separated_items" -> separated_items(config, s)
    [] name = "array" -> array(config, s)
    [] name = "many0_array" -> many0_array(config, s)
    [] name = "arrays" -> arrays(config, s)
    [] name = "wrapper" -> wrapper(config, s)
    [] name = "wrapper_doc" -> wrapper_doc(config, s)
    [] name = "root_include" -> root_include(config, s)
    [] name = "root" -> root(config, s)
    [] name = "parse_str_to_internal" -> parse_str_to_internal(config, s)

\* The texts of the multi-format reads.
MergeTexts ==
  {Bytes(<<"a", "=", "1">>), Bytes(<<"{", "\"", "a", "\"", ":", "1", "}">>),
   Bytes(<<"b", "=", "2", "\n", "a", "=", "3">>), Bytes(<<"a", "=", "}">>)}

PropertiesTexts == {Bytes(<<"a", "=", "0", "\n", "c", "=", "d">>)}

Opt(S) == {None} \cup {Some(t) : t \in S}

\* What read_file returns: one format for a typed file name, any combination
\* of the three for an untyped one.
FileReads ==
  {from_file_type(ft, t) : ft \in {"Json", "Hocon"}, t \in DocTexts}
    \cup {[properties |-> p, json |-> j, hocon |-> h] :
            p \in Opt(PropertiesTexts), j \in Opt(MergeTexts), h \in Opt(MergeTexts)}

---------------------------------------------------------------------------
(* The text operations as a state machine: Init draws an input, one action  *)
(* applies the operation of the input's family to it.                      *)

Init ==
  /\ op = "init"
  /\ out = <<>>
  /\ stack = <<>>
  /\ nested = <<>>
  /\ earlier = <<>>
  /\ \/ fam = "string" /\ arg \in EscTexts /\ cfg = default
     \/ fam = "multiline" /\ arg \in QuotedTexts /\ cfg = default
     \/ fam = "path" /\ arg \in PathTexts /\ cfg = default
     \/ fam = "doc" /\ arg \in DocTexts /\ cfg = default
     \/ fam = "append" /\ arg \in AppendTexts /\ cfg = default
     \/ fam = "number" /\ arg \in NumberTexts /\ cfg = default
     \/ fam = "unquoted" /\ arg \in UnquotedTexts /\ cfg = default
     \/ fam = "objects" /\ arg \in ChainsOf(ObjectLayers) /\ cfg = default
     \/ fam = "arrays" /\ arg \in ChainsOf(ArrayLayers) /\ cfg = default
     \/ /\ fam = "file"
        /\ arg \in FileReads
        /\ cfg \in {[default EXCEPT !.strict = st] : st \in BOOLEAN}

\* string on the text between two quotes.
ParseString ==
  /\ fam = "string" /\ op = "init"
  /\ op' = "string"
  /\ out' = string(<<B("\"")>> \o arg \o <<B("\"")>>)
  /\ UNCHANGED <<fam, arg, cfg, stack, nested, earlier>>

MultilineString ==
  /\ fam = "multiline" /\ op = "init"
  /\ op' = "multiline_string"
  /\ out' = multiline_string(arg)
  /\ UNCHANGED <<fam, arg, cfg, stack, nested, earlier>>

FromPath ==
  /\ fam = "path" /\ op = "init"
  /\ op' = "from_path"
  /\ out' = from_path(arg)
  /\ UNCHANGED <<fam, arg, cfg, stack, nested, earlier>>

Root ==
  /\ fam \in {"doc", "append"} /\ op = "init"
  /\ op' = "root"
  /\ out' = Call("root", cfg, terminated(arg))
  /\ UNCHANGED <<fam, arg, cfg, stack, nested, earlier>>

ParseStrToInternal ==
  /\ fam = "file" /\ op = "init"
  /\ op' = "parse_str_to_internal"
  /\ out' = Call("parse_str_to_internal", cfg, arg)
  /\ UNCHANGED <<fam, arg, cfg, stack, nested, earlier>>

\* hocon_value on a text that opens with three quotes.
HoconValue ==
  /\ fam = "multiline" /\ op = "init"
  /\ op' = "hocon_value"
  /\ out' = hocon_value(arg)
  /\ UNCHANGED <<fam, arg, cfg, stack, nested, earlier>>

\* A second parse of the same text under the same configuration; the
\* random source of new_v4 has moved on since the first.
RootAgain ==
  /\ fam = "append" /\ op = "root"
  /\ op' = "root_again"
  /\ earlier' = out
  /\ out' = Call("root", [cfg EXCEPT !.seed = cfg.seed + 1], terminated(arg))
  /\ UNCHANGED <<fam, arg, cfg, stack, nested>>

\* single_value on a number text.
SingleValue ==
  /\ fam = "number" /\ op = "init"
  /\ op' = "single_value"
  /\ out' = single_value(arg)
  /\ UNCHANGED <<fam, arg, cfg, stack, nested, earlier>>

UnquotedStringOp ==
  /\ fam = "unquoted" /\ op = "init"
  /\ op' = "unquoted_string"
  /\ out' = unquoted_string(arg)
  /\ UNCHANGED <<fam, arg, cfg, stack, nested, earlier>>

\* hashes on an object chain.
Hashes ==
  /\ fam = "objects" /\ op = "init"
  /\ op' = "hashes"
  /\ out' = Call("hashes", cfg, arg)
  /\ UNCHANGED <<fam, arg, cfg, stack, nested, earlier>>

\* arrays on an array chain.
Arrays ==
  /\ fam = "arrays" /\ op = "init"
  /\ op' = "arrays"
  /\ out' = Call("arrays", cfg, arg)
  /\ UNCHANGED <<fam, arg, cfg, stack, nested, earlier>>

Next ==
  \/ ParseString \/ MultilineString \/ FromPath \/ Root \/ ParseStrToInternal
  \/ HoconValue \/ RootAgain \/ SingleValue \/ UnquotedStringOp
  \/ Hashes \/ Arrays

Spec == Init /\ [][Next]_vars

---------------------------------------------------------------------------
(* Includes.  A nested parse is a frame on the stack: the configuration it  *)
(* runs with and the include directives of its document not yet expanded.  *)
(* The Source Reader is a fixed file system and a fixed web.               *)

IncludeKeyword == Bytes(<<"i", "n", "c", "l", "u", "d", "e", " ">>)

Quoted(t) == <<B("\"")>> \o t \o <<B("\"")>>

UrlOf(t) == Bytes(<<"u", "r", "l", "(">>) \o Quoted(t) \o <<B(")")>>

DotConf == Bytes(<<".", "c", "o", "n", "f">>)

HttpB == Bytes(<<"h", "t", "t", "p", ":", "/", "/", "h", "/", "b">>)

FileE == Bytes(<<"f", "i", "l", "e", ":", "/", "/", "/", "e">>) \o DotConf

\* http://h/x is not served, http://h/p serves a text that does not parse.
HttpX == Bytes(<<"h", "t", "t", "p", ":", "/", "/", "h", "/", "x">>)

HttpP == Bytes(<<"h", "t", "t", "p", ":", "/", "/", "h", "/", "p">>)

\* file:///m.conf and file:///n name no file; file://h/d has a host, so it
\* has no file path.
FileM == Bytes(<<"f", "i", "l", "e", ":", "/", "/", "/", "m">>) \o DotConf

FileN == Bytes(<<"f", "i", "l", "e", ":", "/", "/", "/", "n">>)

FileHost == Bytes(<<"f", "i", "l", "e", ":", "/", "/", "h", "/", "d">>)

\* The files of the Source Reader: a file that includes itself, one that
\* includes a URL, a chain that ends and names a missing file, a file that
\* includes itself through a file: URL, one with a target that is no URL,
\* one with an empty target.
Files ==
  [p \in {<<B("/"), B(c)>> \o DotConf : c \in {"a", "b", "c", "d", "e", "f", "g", "h", "i", "j", "k", "l"}} |->
     CASE p[2] = B("a") -> IncludeKeyword \o Quoted(Bytes(<<"a">>) \o DotConf)
       [] p[2] = B("b") -> IncludeKeyword \o UrlOf(HttpB)
       [] p[2] = B("c") -> IncludeKeyword \o Quoted(Bytes(<<"d">>) \o DotConf)
                             \o <<B("\n")>> \o IncludeKeyword
                             \o Quoted(Bytes(<<"m">>) \o DotConf)
       [] p[2] = B("d") -> Bytes(<<"x", "=", "1">>)
       [] p[2] = B("e") -> IncludeKeyword \o UrlOf(FileE)
       [] p[2] = B("f") -> IncludeKeyword \o UrlOf(Bytes(<<"h", "/", "b">>))
       [] p[2] = B("g") -> IncludeKeyword \o Quoted(<<>>)
       [] p[2] = B("h") -> IncludeKeyword \o UrlOf(FileM)
       [] p[2] = B("i") -> IncludeKeyword \o UrlOf(FileN)
       [] p[2] = B("j") -> IncludeKeyword \o UrlOf(HttpX)
       [] p[2] = B("k") -> IncludeKeyword \o UrlOf(HttpP)
       [] p[2] = B("l") -> IncludeKeyword \o UrlOf(FileHost)]

\* The web of the Source Reader: a document that includes its own URL.
Web ==
  [u \in {HttpB, HttpP} |->
     IF u = HttpB THEN IncludeKeyword \o UrlOf(HttpB) ELSE Bytes(<<"a", "=", "}">>)]

\* read_file_to_string
read_file_to_string(path) ==
  IF path \in DOMAIN Files THEN Some(Files[path]) ELSE None

\* PathBuf::set_extension
set_extension(path, ext) ==
  Let(file_name(path).name, LAMBDA name :
    Let(rfind_dot(name, Len(name)), LAMBDA d :
      (IF d <= 0 THEN path ELSE SubSeq(path, 1, Len(path) - (Len(name) - d)))
        \o <<B(".")>> \o ext))

\* read_file: [ok, read]; the error is the I/O error of the Source Reader.
read_file(self) ==
  Let(self.file_meta.meta.full_path, LAMBDA full_path :
    IF self.file_meta.meta.file_type = "All"
    THEN [ok |-> TRUE,
          read |->
            [hocon |-> read_file_to_string(
                         IF full_path \in DOMAIN Files THEN full_path
                         ELSE set_extension(full_path, Bytes(<<"c", "o", "n", "f">>))),
             json |-> read_file_to_string(
                        set_extension(full_path, Bytes(<<"j", "s", "o", "n">>))),
             properties |-> read_file_to_string(
                              set_extension(full_path,
                                Bytes(<<"p", "r", "o", "p", "e", "r", "t", "i", "e", "s">>)))]]
    ELSE Let(read_file_to_string(full_path), LAMBDA text :
      IF ~text.some THEN [ok |-> FALSE, read |-> FileRead]
      ELSE [ok |-> TRUE, read |-> from_file_type(self.file_meta.meta.file_type, text.text)]))

\* A nested parse about to start: the configuration it runs with, what it
\* reads, and whether its errors are turned into the Include error.
\* fetched tells whether the text came from reqwest::blocking::get.
Nested(kind, config, read, map_err) ==
  [ok |-> TRUE, panic |-> FALSE, err |-> "", kind |-> kind, config |-> config,
   read |-> read, map_err |-> map_err, path |-> <<>>, fetched |-> kind = "url"]

\* No nested parse: the include ends in an error, or does not return.
NoNested(err, panic) ==
  [ok |-> FALSE, panic |-> panic, err |-> err, kind |-> "", config |-> <<>>,
   read |-> FileRead, map_err |-> FALSE, path |-> <<>>, fetched |-> FALSE]

\* Err(Error::Include { path: String::from(url) }), before or after a fetch.
IncludeError(url, fetched) ==
  [NoNested("Include", FALSE) EXCEPT !.path = url, !.fetched = fetched]

\* reqwest::Url::parse, scheme and to_file_path: [ok, scheme, path].
url_parse(url) ==
  IF StartsWith(url, Bytes(<<"f", "i", "l", "e", ":", "/", "/">>))
  THEN [ok |-> TRUE, scheme |-> "file", path |-> SliceFrom(url, 7)]
  ELSE IF StartsWith(url, Bytes(<<"h", "t", "t", "p", ":", "/", "/">>))
  THEN [ok |-> TRUE, scheme |-> "http", path |-> <<>>]
  ELSE [ok |-> FALSE, scheme |-> "", path |-> <<>>]

\* The nested parse of a file: included_from, with_file, read_file.
include_file(self, kind, path) ==
  Let(with_file(included_from(self), path), LAMBDA include_config :
    IF include_config.panic THEN NoNested("", TRUE)
    ELSE Let(read_file(include_config.config), LAMBDA s :
      IF ~s.ok THEN NoNested("Io", FALSE)
      ELSE Nested(kind, include_config.config, s.read, kind = "file_url")))

\* A load_url that looks at external_url before it looks at the scheme.
load_url_flag_first(self, url) ==
  Let(url_parse(url), LAMBDA parsed_url :
    IF ~parsed_url.ok THEN IncludeError(url, FALSE)
    ELSE IF ~self.external_url THEN IncludeError(url, FALSE)
    ELSE IF parsed_url.scheme = "file"
    THEN IF parsed_url.path # <<>> /\ parsed_url.path[1] = B("/")
         THEN include_file(self, "file_url", parsed_url.path)
         ELSE IncludeError(url, FALSE)
    ELSE IF url \in DOMAIN Web
         THEN Nested("url", self, [FileRead EXCEPT !.hocon = Some(Web[url])], FALSE)
         ELSE IncludeError(url, TRUE))

\* load_url, up to its call of parse_str_to_internal.
load_url(self, url) ==
  Let(url_parse(url), LAMBDA parsed_url :
    IF ~parsed_url.ok THEN IncludeError(url, FALSE)
    ELSE IF parsed_url.scheme = "file"
    THEN IF parsed_url.path # <<>> /\ parsed_url.path[1] = B("/")
         THEN include_file(self, "file_url", parsed_url.path)
         ELSE IncludeError(url, FALSE)
    ELSE IF self.external_url
    THEN IF url \in DOMAIN Web
         THEN Nested("url", self, [FileRead EXCEPT !.hocon = Some(Web[url])], FALSE)
         ELSE IncludeError(url, TRUE)
    ELSE IncludeError(url, FALSE))

\* HoconInternal::from_include, up to the nested parse: the depth check,
\* then the file or the URL.
include_start(included, config) ==
  IF config.include_depth > config.max_include_depth THEN NoNested("Include", FALSE)
  ELSE IF included.kind = "File" THEN include_file(config, "file", included.target)
  ELSE load_url(config, included.target)

\* The include directives of a Document, in order.
Includes(doc) ==
  Let(SelectSeq(doc, LAMBDA e : e[2].t = "Include"), LAMBDA entries :
    [i \in 1..Len(entries) |->
       [kind |-> entries[i][2].kind, target |-> entries[i][2].target]])

\* The frame of a parse: its configuration and the directives of the parsed
\* text that are not expanded yet.
Frame(config, parsed) == [config |-> config, pending |-> Includes(parsed.doc)]

MaxNesting == 14

IncludeConfigs ==
  {[default EXCEPT !.max_include_depth = m, !.external_url = u, !.strict = st] :
     m \in {1, 10}, u \in BOOLEAN, st \in BOOLEAN}

InitInc ==
  /\ fam = "include"
  /\ arg \in DOMAIN Files
  /\ cfg \in IncludeConfigs
  /\ op = "init"
  /\ out = <<>>
  /\ stack = <<>>
  /\ nested = <<>>
  /\ earlier = <<>>

\* The root parse: with_file, read_file, parse_str_to_internal.
LoadFile ==
  /\ fam = "include" /\ op = "init"
  /\ op' = "load_file"
  /\ Let(with_file(cfg, arg).config, LAMBDA config :
       Let(Call("parse_str_to_internal", config, read_file(config).read), LAMBDA parsed :
         /\ out' = parsed
         /\ stack' = IF parsed.ok THEN <<Frame(config, parsed)>> ELSE <<>>))
  /\ UNCHANGED <<fam, arg, cfg, nested, earlier>>

\* The directive the innermost parse has reached.
Directive == Head(stack[Len(stack)].pending)

AtDirective == stack # <<>> /\ stack[Len(stack)].pending # <<>>

\* The start of the directive at hand with the innermost parse's configuration.
Start == include_start(Directive, stack[Len(stack)].config)

\* The stack once the directive at hand is done with.
Skipped ==
  [stack EXCEPT ![Len(stack)].pending = Tail(stack[Len(stack)].pending)]

\* A nested parse starts, or fails on its text.
Enter(st) ==
  Let(Call("parse_str_to_internal", st.config, st.read), LAMBDA parsed :
    /\ nested' = [kind |-> st.kind, parent |-> stack[Len(stack)].config,
                  child |-> st.config]
    /\ out' = IF ~parsed.ok /\ ~parsed.panic /\ st.map_err THEN Error("Include")
              ELSE parsed
    /\ stack' = IF parsed.ok THEN Append(stack, Frame(st.config, parsed))
                ELSE IF parsed.panic THEN <<>>
                ELSE Skipped)

\* include "path" and include file("path")
IncludeFile ==
  /\ fam = "include" /\ AtDirective /\ Len(stack) < MaxNesting
  /\ Directive.kind = "File" /\ Start.ok
  /\ op' = "include_file"
  /\ Enter(Start)
  /\ UNCHANGED <<fam, arg, cfg, earlier>>

\* include url("...")
IncludeUrl ==
  /\ fam = "include" /\ AtDirective /\ Len(stack) < MaxNesting
  /\ Directive.kind = "Url" /\ Start.ok
  /\ op' = "load_url"
  /\ Enter(Start)
  /\ UNCHANGED <<fam, arg, cfg, earlier>>

\* The directive ends in an error before any nested parse, or does not
\* return.
IncludeFails ==
  /\ fam = "include" /\ AtDirective
  /\ ~Start.ok
  /\ op' = "include_error"
  /\ out' = IF Start.panic THEN Aborted ELSE Error(Start.err)
  /\ stack' = IF Start.panic THEN <<>> ELSE Skipped
  /\ UNCHANGED <<fam, arg, cfg, nested, earlier>>

\* The innermost parse has expanded all its directives: it returns to the
\* directive that started it.
IncludeReturns ==
  /\ fam = "include" /\ stack # <<>> /\ stack[Len(stack)].pending = <<>>
  /\ op' = "return"
  /\ stack' = IF Len(stack) = 1 THEN <<>>
              ELSE [SubSeq(stack, 1, Len(stack) - 1) EXCEPT
                      ![Len(stack) - 1].pending = Tail(stack[Len(stack) - 1].pending)]
  /\ UNCHANGED <<fam, arg, cfg, out, nested, earlier>>

NextInc == LoadFile \/ IncludeFile \/ IncludeUrl \/ IncludeFails \/ IncludeReturns

SpecInc == InitInc /\ [][NextInc]_vars

---------------------------------------------------------------------------
(* Properties of the text operations, checked under Spec.                  *)

\* The byte at offset k of r is a quote.
IsQuote(r, k) == k < Len(r) /\ r[k + 1] = B("\"")

ThreeQuotesAt(r, i) == IsQuote(r, i) /\ IsQuote(r, i + 1) /\ IsQuote(r, i + 2)

HasRun(r) == \E i \in 0..Len(r) : ThreeQuotesAt(r, i)

\* The offset where the first run of three or more quotes starts.
RunStart(r) ==
  CHOOSE i \in 0..Len(r) : ThreeQuotesAt(r, i) /\ \A k \in 0..(i - 1) : ~ThreeQuotesAt(r, k)

\* The offset just after that run.
RunEnd(r) ==
  CHOOSE j \in 0..Len(r) :
    /\ j >= RunStart(r) + 3
    /\ \A k \in RunStart(r)..(j - 1) : IsQuote(r, k)
    /\ ~IsQuote(r, j)

\* C1: multiline_string on a text that opens with three quotes and has a
\* later run of three or more quotes succeeds; the content is the text up
\* to the last three quotes of the first such run (earlier quotes of the run
\* and shorter runs are content) and parsing resumes just after the run.
C1_Terminator ==
  (fam = "multiline" /\ op = "multiline_string" /\ HasRun(SliceFrom(arg, 3))) =>
    Let(SliceFrom(arg, 3), LAMBDA r :
      /\ out.ok
      /\ out.val = Slice(r, 0, RunEnd(r) - 3)
      /\ out.rest = SliceFrom(r, RunEnd(r)))

\* Three quotes, a"b, four quotes decodes to a"b".
C1_Witness ==
  /\ op = "multiline_string"
  /\ arg = Bytes(<<"\"", "\"", "\"", "a", "\"", "b", "\"", "\"", "\"", "\"">>)
  /\ out.ok
  /\ out.val = Bytes(<<"a", "\"", "b", "\"">>)
  /\ out.rest = <<>>

\* C2: no operation panics: string on every content, from_path on every
\* path, the root parser and parse_str_to_internal on every text return.
C2_NeverPanics == op # "init" => ~out.panic

\* A read of one JSON or one native text.
IsSingleText(s) == ~s.properties.some /\ (s.json.some # s.hocon.some)

TextOf(s) == IF s.json.some THEN s.json.text ELSE s.hocon.text

\* The remainder holds a character that is no space, tab, newline or
\* terminator.
HasNonWhitespace(remaining) ==
  \E i \in 1..Len(remaining) : remaining[i] \notin {B(" "), B("\t"), B("\n"), B("\r"), 0}

\* C3: when the root parser succeeds on a JSON or native text,
\* parse_str_to_internal returns an error if and only if strict is enabled
\* and the unconsumed remainder holds a non-whitespace character.
C3_CompletenessIff ==
  (fam = "file" /\ op = "parse_str_to_internal" /\ IsSingleText(arg)) =>
    Let(root(cfg, terminated(TextOf(arg))), LAMBDA r :
      r.ok => (~out.ok <=> (cfg.strict /\ HasNonWhitespace(r.rest))))

\* C4: an incomplete consumption under strict (the root parser succeeds and
\* leaves a non-whitespace character) is reported as the Parse error.
C4_IncompleteIsParseError ==
  (fam = "file" /\ op = "parse_str_to_internal" /\ IsSingleText(arg) /\ cfg.strict) =>
    Let(root(cfg, terminated(TextOf(arg))), LAMBDA r :
      (r.ok /\ HasNonWhitespace(r.rest)) => (~out.ok /\ out.err = "Parse"))

\* The Document of one format of a read: none when the format is absent.
Part(self, o) == IF o.some THEN parse_branch(self, o.text) ELSE Done(<<>>)

PropertiesPart(o) == IF o.some THEN from_properties(o.text) ELSE <<>>

\* C5: when every present text parses, parse_str_to_internal returns the
\* Documents of the present formats concatenated in the order properties,
\* JSON, native; an absent format contributes nothing and no error.
C5_MergeOrder ==
  (fam = "file" /\ op = "parse_str_to_internal") =>
    Let(Part(cfg, arg.json), LAMBDA j :
      Let(Part(cfg, arg.hocon), LAMBDA h :
        (j.ok /\ h.ok) =>
          /\ out.ok
          /\ out.doc = PropertiesPart(arg.properties) \o j.doc \o h.doc))

\* All three formats present, with different Documents.
C5_Witness ==
  /\ op = "parse_str_to_internal"
  /\ arg.properties.some
  /\ arg.json = Some(Bytes(<<"{", "\"", "a", "\"", ":", "1", "}">>))
  /\ arg.hocon = Some(Bytes(<<"b", "=", "2", "\n", "a", "=", "3">>))
  /\ out.ok
  /\ Len(out.doc) = 5
  /\ out.doc[3][2] = [t |-> "Integer", s |-> Bytes(<<"1">>)]
  /\ out.doc[5][2] = [t |-> "Integer", s |-> Bytes(<<"3">>)]

\* The reference decoder's table of the two-character escapes.
RefEscape(b) ==
  CASE b = B("\"") -> 34 [] b = B("\\") -> 92 [] b = B("/") -> 47 [] b = B("b") -> 8
    [] b = B("f") -> 12 [] b = B("n") -> 10 [] b = B("r") -> 13 [] b = B("t") -> 9

IsSimpleEscape(t) ==
  Len(t) >= 2 /\ t[1] = B("\\")
    /\ t[2] \in {B("\""), B("\\"), B("/"), B("b"), B("f"), B("n"), B("r"), B("t")}

\* t starts with \u and four hex digits.
IsUnicodeEscape(t) ==
  Len(t) >= 6 /\ t[1] = B("\\") /\ t[2] = B("u")
    /\ \A i \in 3..6 : is_ascii_hexdigit(t[i])

CodeUnit(t) == 4096 * HexVal(t[3]) + 256 * HexVal(t[4]) + 16 * HexVal(t[5]) + HexVal(t[6])

IsHigh(t) == IsUnicodeEscape(t) /\ CodeUnit(t) \in 55296..56319

IsLow(t) == IsUnicodeEscape(t) /\ CodeUnit(t) \in 56320..57343

Drop(t, n) == SubSeq(t, n + 1, Len(t))

\* A well-formed JSON string content: unescaped characters, two-character
\* escapes, \uXXXX of a non-surrogate, a high surrogate followed by a low one.
RECURSIVE WellFormed(_)
WellFormed(t) ==
  IF t = <<>> THEN TRUE
  ELSE IF t[1] \notin {B("\\"), B("\"")} THEN WellFormed(Tail(t))
  ELSE IF IsSimpleEscape(t) THEN WellFormed(Drop(t, 2))
  ELSE IF IsHigh(t) THEN IsLow(Drop(t, 6)) /\ WellFormed(Drop(t, 12))
  ELSE IF IsUnicodeEscape(t) /\ ~IsLow(t) THEN WellFormed(Drop(t, 6))
  ELSE FALSE

\* The reference JSON string decoder, on a well-formed content.
RECURSIVE RefDecode(_)
RefDecode(t) ==
  IF t = <<>> THEN <<>>
  ELSE IF t[1] # B("\\") THEN <<t[1]>> \o RefDecode(Tail(t))
  ELSE IF t[2] # B("u") THEN <<RefEscape(t[2])>> \o RefDecode(Drop(t, 2))
  ELSE IF IsHigh(t)
    THEN Utf8(65536 + (CodeUnit(t) - 55296) * 1024 + (CodeUnit(Drop(t, 6)) - 56320))
           \o RefDecode(Drop(t, 12))
  ELSE Utf8(CodeUnit(t)) \o RefDecode(Drop(t, 6))

\* C6: on every well-formed string content, string returns what the
\* reference JSON string decoder returns.
C6_AgreesWithReference ==
  (fam = "string" /\ op = "string" /\ WellFormed(arg)) =>
    (out.ok /\ out.val = RefDecode(arg))

\* A surrogate pair after a two-character escape, merged into U+1F600.
C6_Witness ==
  /\ op = "string"
  /\ arg = Bytes(<<"\\", "n", "\\", "u", "d", "8", "3", "d", "\\", "u", "D", "E", "0", "0">>)
  /\ out.ok
  /\ out.val = <<10, 240, 159, 152, 128>>

JsonWhitespace == {B(" "), B("\t"), B("\n"), B("\r")}

\* t without its leading and trailing JSON whitespace.
RECURSIVE JsonTrim(_)
JsonTrim(t) ==
  IF t # <<>> /\ t[1] \in JsonWhitespace THEN JsonTrim(Tail(t))
  ELSE IF t # <<>> /\ t[Len(t)] \in JsonWhitespace THEN JsonTrim(SubSeq(t, 1, Len(t) - 1))
  ELSE t

\* C7: a JSON document whose top-level value is the array [1,2] is returned
\* as an array Document, one whose top-level value is the object {"a":1} as
\* an object Document with its entry, the input consumed up to whitespace
\* and terminator.
C7_JsonTopLevelShape ==
  (fam = "doc" /\ op = "root") =>
    /\ JsonTrim(arg) = Bytes(<<"[", "1", ",", "2", "]">>) =>
         (out.ok /\ out.val.shape = "array" /\ Len(out.val.doc) = 2
            /\ ~HasNonWhitespace(out.rest))
    /\ JsonTrim(arg) = Bytes(<<"{", "\"", "a", "\"", ":", "1", "}">>) =>
         (out.ok /\ out.val.shape = "object" /\ Len(out.val.doc) = 1
            /\ ~HasNonWhitespace(out.rest))

\* The value holds a substitution marked required.
RECURSIVE RequiredIn(_)
RequiredIn(v) ==
  CASE v.t = "PathSubstitution" -> ~v.optional \/ RequiredIn(v.target)
    [] v.t = "PathSubstitutionInParent" -> RequiredIn(v.target)
    [] v.t = "Concat" -> \E i \in 1..Len(v.values) : RequiredIn(v.values[i])
    [] v.t = "ToConcatToArray" -> RequiredIn(v.value)
    [] OTHER -> FALSE

\* The text holds a substitution opener that is not the optional one.
HasRequiredOpener(t) ==
  \E i \in 1..(Len(t) - 2) : t[i] = B("$") /\ t[i + 1] = B("{") /\ t[i + 2] # B("?")

\* C8: in a document whose substitutions are all written with the optional
\* opener, no parsed substitution is marked required, whatever its position.
C8_OptionalEverywhere ==
  (fam = "doc" /\ op = "root" /\ out.ok /\ ~HasRequiredOpener(arg)) =>
    \A i \in 1..Len(out.val.doc) : ~RequiredIn(out.val.doc[i][2])

---------------------------------------------------------------------------
(* Properties of the includes, checked under SpecInc.                      *)

\* C9: every nested parse runs with include_depth equal to the including
\* parse's plus one, and with system, strict, external_url and
\* max_include_depth equal to the including parse's.
C9_DepthPlusOne ==
  nested # <<>> =>
    /\ nested.child.include_depth = nested.parent.include_depth + 1
    /\ nested.child.system = nested.parent.system
    /\ nested.child.strict = nested.parent.strict
    /\ nested.child.external_url = nested.parent.external_url
    /\ nested.child.max_include_depth = nested.parent.max_include_depth

\* C10: the nesting of parses is bounded by the configured maximum: the
\* root parse, then at most max_include_depth + 1 nested ones.
C10_BoundedNesting == Len(stack) <= cfg.max_include_depth + 2

---------------------------------------------------------------------------
(* load_url and the errors of an include.                                   *)

\* The configuration of the innermost parse.
TopConfig == stack[Len(stack)].config

\* The innermost parse is at an include url(...) directive that reaches
\* load_url.
LoadUrlCalled ==
  /\ AtDirective /\ Directive.kind = "Url" /\ Len(stack) < MaxNesting
  /\ TopConfig.include_depth <= TopConfig.max_include_depth

\* The start of a nested parse, apart from the external_url flag it carries.
FlagFree(st) == IF st.ok THEN [st EXCEPT !.config.external_url = TRUE] ELSE st

\* The step is the Include error carrying the URL, and nothing was fetched.
RefusedUnfetched ==
  /\ Start = IncludeError(Directive.target, FALSE)
  /\ op' = "include_error" /\ out' = Error("Include") /\ nested' = nested

\* C11: load_url resolves a file: URL as a local path whether or not external
\* fetching is enabled, fetches a URL of another scheme only when external
\* fetching is enabled and otherwise returns the Include error carrying the
\* URL without a fetch, and returns the Include error carrying the string for
\* a string that is no URL.
C11_LoadUrl ==
  [][LoadUrlCalled =>
       Let(url_parse(Directive.target), LAMBDA u :
         /\ ~u.ok => RefusedUnfetched
         /\ (u.ok /\ u.scheme # "file" /\ ~TopConfig.external_url) => RefusedUnfetched
         /\ (u.ok /\ u.scheme # "file" /\ TopConfig.external_url) => Start.fetched
         /\ (u.ok /\ u.scheme = "file") =>
              /\ ~Start.fetched
              /\ FlagFree(load_url([TopConfig EXCEPT !.external_url = TRUE],
                                   Directive.target))
                   = FlagFree(load_url([TopConfig EXCEPT !.external_url = FALSE],
                                       Directive.target))
              /\ (u.path # <<>> /\ u.path[1] = B("/")) =>
                   Start = include_file(TopConfig, "file_url", u.path))]_vars

\* A file: URL was resolved and parsed with external fetching disabled.
C11_Witness ==
  /\ op = "load_url" /\ nested # <<>>
  /\ nested.kind = "file_url" /\ ~nested.parent.external_url /\ out.ok

\* The target of a url(...) directive names nothing the Source Reader can
\* read: no file under the path or under the path with one of the three
\* extensions, no document under the URL.
Unreadable(url) ==
  Let(url_parse(url), LAMBDA u :
    /\ u.ok
    /\ IF u.scheme = "file"
       THEN /\ u.path # <<>> /\ u.path[1] = B("/")
            /\ \A ext \in {Bytes(<<"c", "o", "n", "f">>), Bytes(<<"j", "s", "o", "n">>),
                           Bytes(<<"p", "r", "o", "p", "e", "r", "t", "i", "e", "s">>)} :
                 ~read_file_to_string(set_extension(u.path, ext)).some
            /\ ~read_file_to_string(u.path).some
       ELSE url \notin DOMAIN Web)

\* C12: an include whose target cannot be read or parsed ends in the Include
\* error, never in a bare I/O, Parse or Deserialization error and never in
\* a Document; for file: URLs, fetched URLs and extension-less targets alike.
C12_IncludeErrorOnly ==
  [][(LoadUrlCalled /\ (TopConfig.external_url \/ url_parse(Directive.target).scheme = "file")) =>
       /\ (~out'.ok /\ ~out'.panic) => out'.err = "Include"
       /\ Unreadable(Directive.target) => ~out'.ok]_vars

---------------------------------------------------------------------------
(* Malformed escapes and unterminated multi-line strings.                   *)

\* The content has a backslash that starts neither a two-character escape
\* nor \u with four hexadecimal digits.
RECURSIVE HasMalformedEscape(_)
HasMalformedEscape(t) ==
  IF t = <<>> THEN FALSE
  ELSE IF t[1] # B("\\") THEN HasMalformedEscape(Tail(t))
  ELSE IF IsSimpleEscape(t) THEN HasMalformedEscape(Drop(t, 2))
  ELSE IF IsUnicodeEscape(t) THEN HasMalformedEscape(Drop(t, 6))
  ELSE TRUE

\* C13: string fails on a quoted string whose content has a malformed
\* escape: a backslash before a character that is none of " \ / b f n r t u,
\* or \u without four hexadecimal digits after it.
C13_MalformedEscapeRejected ==
  (fam = "string" /\ op = "string" /\ HasMalformedEscape(arg)) => ~out.ok

\* C14: on a text that opens with three quotes and has no later run of
\* three or more quotes, multiline_string fails and hocon_value fails too:
\* the text is not taken as another value.
C14_UnterminatedRejected ==
  (fam = "multiline" /\ op \in {"multiline_string", "hocon_value"}
     /\ ~HasRun(SliceFrom(arg, 3))) => ~out.ok

---------------------------------------------------------------------------
(* The append operator.                                                     *)

\* C15: two parses of the same include-free text under the same
\* configuration return equal Documents, the operation ids of the entries
\* produced by += included.
C15_SameTextSameDocument == op = "root_again" => out = earlier

\* The number of entries a line of AppendTexts produces.
EntryCount(line) == IF \E i \in 1..Len(line) : line[i] = B(",") THEN 2 ELSE 1

\* The line is a += occurrence.
IsAppend(line) == \E i \in 1..Len(line) : line[i] = B("+")

\* For each entry of the Document in order, the index of the line that
\* produced it.
RECURSIVE Owners(_, _)
Owners(ls, i) ==
  IF i > Len(ls) THEN <<>>
  ELSE [k \in 1..EntryCount(ls[i]) |-> i] \o Owners(ls, i + 1)

IsTagged(e) == e[2].t = "ToConcatToArray"

\* C16: every entry of the value of a += occurrence (quoted or unquoted key)
\* is wrapped in ToConcatToArray, the entries of one occurrence carry one
\* operation id, the ids of two occurrences differ (also at the same path),
\* and the entries written with :, = or a direct object are not tagged.
C16_AppendTagging ==
  (fam = "append" /\ op = "root") =>
    LET ls == Lines(arg, <<>>)
        own == Owners(ls, 1)
        doc == out.val.doc
    IN /\ out.ok
       /\ Len(doc) = Len(own)
       /\ \A j \in 1..Len(doc) : IsTagged(doc[j]) <=> IsAppend(ls[own[j]])
       /\ \A j, k \in 1..Len(doc) :
            (IsTagged(doc[j]) /\ IsTagged(doc[k])) =>
              ((doc[j][2].item_id = doc[k][2].item_id) <=> (own[j] = own[k]))

\* a+={b:1,c:2}, then a+=1, then a=1: two entries with one id, one entry
\* with another id, one entry without a tag.
C16_Witness ==
  /\ op = "root" /\ out.ok
  /\ arg = Bytes(<<"a", "+", "=", "{", "b", ":", "1", ",", "c", ":", "2", "}", "\n">>)
             \o Bytes(<<"a", "+", "=", "1", "\n">>) \o Bytes(<<"a", "=", "1", "\n">>)
  /\ Len(out.val.doc) = 4
  /\ out.val.doc[1][2].item_id = out.val.doc[2][2].item_id
  /\ out.val.doc[3][2].item_id # out.val.doc[1][2].item_id
  /\ ~IsTagged(out.val.doc[4])

---------------------------------------------------------------------------
(* Numbers.                                                                 *)

IsDigit(b) == b >= B("0") /\ b <= B("9")

\* The offset where the digit run that starts at offset from ends.
RunOfDigits(t, from) ==
  CHOOSE k \in from..Len(t) :
    /\ \A i \in (from + 1)..k : IsDigit(t[i])
    /\ k = Len(t) \/ ~IsDigit(t[k + 1])

\* The length of the longest prefix of t of the form
\* [-]digits[.digits][(e|E)[+|-]digits], 0 when there is none.
TokenLen(t) ==
  LET a == IF t # <<>> /\ t[1] = B("-") THEN 1 ELSE 0
      j == RunOfDigits(t, a)
      f == IF j < Len(t) /\ t[j + 1] = B(".") THEN RunOfDigits(t, j + 1) ELSE j
      k == IF f > j + 1 THEN f ELSE j
      g == IF k + 1 < Len(t) /\ t[k + 2] \in {B("+"), B("-")} THEN k + 2 ELSE k + 1
      x == IF k < Len(t) /\ t[k + 1] \in {B("e"), B("E")} /\ g <= Len(t)
           THEN RunOfDigits(t, g) ELSE k
  IN IF j = a THEN 0 ELSE IF x > g THEN x ELSE k

\* The digit string z is greater than the digit string b of the same length.
GreaterDigits(z, b) ==
  \E i \in 1..Len(z) : z[i] > b[i] /\ \A k \in 1..(i - 1) : z[k] = b[k]

\* The token is [-]digits and its value lies in -2^63 .. 2^63 - 1.
IsI64(tok) ==
  LET neg == tok[1] = B("-")
      ds == IF neg THEN Tail(tok) ELSE tok
      nz == {i \in 1..Len(ds) : ds[i] # B("0")}
      z == IF nz = {} THEN <<>>
           ELSE SubSeq(ds, CHOOSE i \in nz : \A k \in nz : i <= k, Len(ds))
  IN /\ \A i \in 1..Len(ds) : IsDigit(ds[i])
     /\ \/ Len(z) < 19
        \/ Len(z) = 19
             /\ ~GreaterDigits(z, IF neg THEN [I64MaxDigits EXCEPT ![19] = B("8")]
                                  ELSE I64MaxDigits)

\* C17: single_value on a text that starts with a token of the form
\* [-]digits[.digits][(e|E)[+|-]digits] returns the whole token, as Integer
\* exactly when the token is a 64-bit signed integer and as Real otherwise,
\* and leaves the same remainder in both cases.
C17_NumberClassification ==
  (fam = "number" /\ op = "single_value" /\ TokenLen(arg) > 0) =>
    LET n == TokenLen(arg) IN
      /\ out.ok
      /\ out.rest = SliceFrom(arg, n)
      /\ out.val.s = Slice(arg, 0, n)
      /\ out.val.t = IF IsI64(Slice(arg, 0, n)) THEN "Integer" ELSE "Real"

\* 9223372036854775808 is one past the largest 64-bit integer: a Real, with
\* the fraction after it consumed as well.
C17_Witness ==
  /\ fam = "number" /\ op = "single_value"
  /\ arg = Bytes(<<"9", "2", "2", "3", "3", "7", "2", "0", "3", "6", "8", "5", "4", "7",
                   "7", "5", "8", "0", "8", ".", "5">>)
  /\ out.ok /\ out.val.t = "Real" /\ out.rest = <<>>

---------------------------------------------------------------------------
(* Unquoted strings.                                                        *)

\* The structural characters: $ " { } [ ] : = , + # backtick ^ ? ! @ * & '
\* backslash tab newline.
Structural ==
  {36, 34, 123, 125, 91, 93, 58, 61, 44, 43, 35, 96, 94, 63, 33, 64, 42, 38, 39, 92, 9, 10}

\* A structural character or a // sequence starts at offset n of t, or t
\* ends there.
StopsAt(t, n) ==
  \/ n = Len(t)
  \/ t[n + 1] \in Structural
  \/ t[n + 1] = B("/") /\ n + 1 < Len(t) /\ t[n + 2] = B("/")

\* The length of the longest prefix of t before any structural character
\* and any // sequence.
RunLen(t) == CHOOSE n \in 0..Len(t) : StopsAt(t, n) /\ \A k \in 0..(n - 1) : ~StopsAt(t, k)

\* C18: unquoted_string matches the longest prefix that has no structural
\* character and does not reach a // sequence; match and remainder make up
\* the input; the remainder is empty or starts with a structural character
\* or with //; and the parser fails when that prefix is empty.
C18_UnquotedString ==
  (fam = "unquoted" /\ op = "unquoted_string") =>
    IF RunLen(arg) = 0 THEN ~out.ok
    ELSE /\ out.ok
         /\ out.val = Slice(arg, 0, RunLen(arg))
         /\ out.val \o out.rest = arg
         /\ \/ out.rest = <<>>
            \/ out.rest[1] \in Structural
            \/ StartsWith(out.rest, <<B("/"), B("/")>>)

\* a/a//a: the single slash is part of the match, the double slash ends it.
C18_Witness ==
  /\ fam = "unquoted" /\ op = "unquoted_string"
  /\ arg = Bytes(<<"a", "/", "a", "/", "/">>)
  /\ out.ok /\ out.val = Bytes(<<"a", "/", "a">>) /\ out.rest = Bytes(<<"/", "/">>)

---------------------------------------------------------------------------
(* Chains of objects and of arrays.                                         *)

\* The layers of a chain text without its leading substitution: the pieces
\* that end with the closing character.
RECURSIVE LayersOf(_, _)
LayersOf(t, close) ==
  IF t = <<>> THEN <<>>
  ELSE LET k == CHOOSE i \in 1..Len(t) : t[i] = close /\ \A j \in 1..(i - 1) : t[j] # close
       IN <<SubSeq(t, 1, k)>> \o LayersOf(SubSeq(t, k + 1, Len(t)), close)

HasSubstitution(t) == StartsWith(t, ChainSubstitution)

ChainBody(t) == IF HasSubstitution(t) THEN SliceFrom(t, Len(ChainSubstitution)) ELSE t

\* The entry key : digit.
KeyDigit(k, d) ==
  <<<<[t |-> "UnquotedString", s |-> <<B(k)>>]>>, [t |-> "Integer", s |-> <<B(d)>>]>>

\* The element digit of an array.
Element(d) == <<<<<<>>, [t |-> "Integer", s |-> <<B(d)>>]>>>>

\* The entries of an object layer and the elements of an array layer, in
\* source order.
LayerEntries(layer) ==
  CASE layer = Bytes(<<"{", "a", ":", "1", "}">>) -> <<KeyDigit("a", "1")>>
    [] layer = Bytes(<<" ", "{", "b", ":", "2", ",", "a", ":", "3", "}">>) ->
         <<KeyDigit("b", "2"), KeyDigit("a", "3")>>
    [] layer = Bytes(<<"{", "}">>) -> <<>>
    [] layer = Bytes(<<"[", "1", "]">>) -> <<Element("1")>>
    [] layer = Bytes(<<" ", "[", "2", ",", "3", "]">>) -> <<Element("2"), Element("3")>>
    [] layer = Bytes(<<"[", "]">>) -> <<>>

RECURSIVE ChainEntries(_)
ChainEntries(layers) ==
  IF layers = <<>> THEN <<>> ELSE LayerEntries(Head(layers)) \o ChainEntries(Tail(layers))

\* The value with the head taken off when the chain has a leading
\* substitution.
Layered(t, val) == IF HasSubstitution(t) THEN Tail(val) ELSE val

\* C19: hashes on ${s} {h1} {h2} ... returns the substitution entry at the
\* empty path, then the entries of h1 in source order, then those of h2, and
\* so on; arrays on ${s} [a1] [a2] ... returns the parent-splicing
\* substitution element, then the elements of a1, then those of a2; without
\* the substitution the layers are concatenated in source order, nothing
\* added, dropped or reordered.
C19_ChainOrder ==
  /\ (fam = "objects" /\ op = "hashes" /\ ChainBody(arg) # <<>>) =>
       /\ out.ok /\ out.rest = <<>>
       /\ HasSubstitution(arg) =>
            /\ out.val # <<>> /\ out.val[1][1] = <<>>
            /\ out.val[1][2].t = "PathSubstitution"
            /\ out.val[1][2].target.s = Bytes(<<"s">>)
       /\ Layered(arg, out.val) = ChainEntries(LayersOf(ChainBody(arg), B("}")))
  /\ (fam = "arrays" /\ op = "arrays" /\ ChainBody(arg) # <<>>) =>
       /\ out.ok /\ out.rest = <<>>
       /\ HasSubstitution(arg) =>
            /\ out.val # <<>> /\ Len(out.val[1]) = 1 /\ out.val[1][1][1] = <<>>
            /\ out.val[1][1][2].t = "PathSubstitutionInParent"
            /\ out.val[1][1][2].target.s = Bytes(<<"s">>)
       /\ Layered(arg, out.val) = ChainEntries(LayersOf(ChainBody(arg), B("]")))

\* ${s} {b:2,a:3}{a:1}: the substitution, then b, a of the first layer, then
\* a of the second.
C19_Witness ==
  /\ fam = "objects" /\ op = "hashes" /\ out.ok
  /\ arg = ChainSubstitution \o Bytes(<<" ", "{", "b", ":", "2", ",", "a", ":", "3", "}">>)
             \o Bytes(<<"{", "a", ":", "1", "}">>)
  /\ Len(out.val) = 4
  /\ out.val[1][2].t = "PathSubstitution"
  /\ Tail(out.val) = <<KeyDigit("b", "2"), KeyDigit("a", "3"), KeyDigit("a", "1")>>

---------------------------------------------------------------------------
(* Unpaired surrogates.                                                     *)

\* The reference decoder that drops unpaired surrogate escapes: a high
\* surrogate counts only with a low surrogate escape right after it.
RECURSIVE RefDecodeUnpaired(_)
RefDecodeUnpaired(t) ==
  IF t = <<>> THEN <<>>
  ELSE IF t[1] # B("\\") THEN <<t[1]>> \o RefDecodeUnpaired(Tail(t))
  ELSE IF t[2] # B("u") THEN <<RefEscape(t[2])>> \o RefDecodeUnpaired(Drop(t, 2))
  ELSE IF IsHigh(t) /\ IsLow(Drop(t, 6))
    THEN Utf8(65536 + (CodeUnit(t) - 55296) * 1024 + (CodeUnit(Drop(t, 6)) - 56320))
           \o RefDecodeUnpaired(Drop(t, 12))
  ELSE IF IsHigh(t) \/ IsLow(t) THEN RefDecodeUnpaired(Drop(t, 6))
  ELSE Utf8(CodeUnit(t)) \o RefDecodeUnpaired(Drop(t, 6))

\* C20: an unpaired surrogate escape adds nothing to the output of unescape:
\* a low surrogate not right after a high one, a high surrogate not right
\* before a low one; a high surrogate seen earlier is never combined with a
\* later low surrogate.
C20_UnpairedSurrogateDropped ==
  (fam = "string" /\ op = "string" /\ ~HasMalformedEscape(arg)) =>
    (out.ok /\ out.val = RefDecodeUnpaired(arg))

===========================================================================
